---------------------------- MODULE Spec2Model ----------------------------
(***************************************************************************)
(* A model of titan, a terminal client for the Gemini protocol.            *)
(*                                                                         *)
(*   - the trust-on-first-use certificate verifier (src/src/tofu.rs),      *)
(*     called from any thread, its store behind a reader-writer lock;      *)
(*   - the fetch engine of the application (src/src/app.rs), with the      *)
(*     input widget it prompts with (src/src/input.rs);                    *)
(*   - the fetch engine of the library (src/lib/src/fetch.rs), with the    *)
(*     text/gemini parser both engines call (src/lib/src/parser.rs);       *)
(*   - the command line (src/src/command.rs), the word wrappers            *)
(*     (src/src/wrapped.rs, src/src/document.rs) and the viewport          *)
(*     (src/src/view.rs).                                                  *)
(*                                                                         *)
(* Each subsystem has its own specification over the shared variables; the *)
(* variables of the other subsystems stay at their idle values.            *)
(***************************************************************************)
EXTENDS Integers, Sequences, FiniteSets, TLC

(***************************************************************************)
(* Bounds of the model.                                                    *)
(***************************************************************************)
\* Number of threads that may be inside verify_server_cert at once.
NThreads == 2

Threads == 1..NThreads

(***************************************************************************)
(* Part 1: the TOFU store (src/src/tofu.rs).                               *)
(***************************************************************************)

\* DNS names the TLS library may hand to the verifier.
Hosts == {"host.example", "other.example"}

\* DER encodings of leaf certificates.
Ders == {"D1", "D2"}

\* Certificate chains a server may present; index 1 is the leaf
\* (presented_certs[0] in the source).
PresentedChains == {<<>>, <<"D1">>, <<"D2">>, <<"D2", "D1">>}

\* sled's `None`: no record under the key.
NoRecord == "NoRecord"

\* A thread that holds no value yet.
Nil == "Nil"

\* Nobody holds the write guard.
NoThread == 0

VARIABLES
    db,          \* the "certs" tree: host -> DER of the recorded leaf, or NoRecord
    readers,     \* the threads holding the RwLock's read guard
    writer,      \* the thread holding the RwLock's write guard, or NoThread
    tpc,         \* where each thread is inside verify_server_cert
    dns_name,    \* each call's dns_name argument
    presented_certs, \* each call's presented_certs argument
    r,           \* each call's `r`: the result of the lookup
    ret          \* each call's return value

tofuVars == <<db, readers, writer, tpc, dns_name, presented_certs, r, ret>>

\* The state of one call of fetch (Part 5).
VARIABLES
    engine,      \* which fetch_ runs
    fpc,         \* where the call is
    url,         \* fetch_'s url
    depth,       \* fetch_'s depth
    response,    \* the parsed response of this depth, once read
    buf,         \* Input.0: the prompt's buffer
    evt,         \* the event Input::run read last
    entered,       \* what Input::run returned
    outcome,     \* what fetch returned
    opened,      \* TCP connections opened so far
    nreq,        \* request lines sent so far
    lastReq,     \* the last request line sent
    via          \* the exchange that made fetch_ re-enter: None at depth 0

fetchVars == <<engine, fpc, url, depth, response, buf, evt, entered, outcome,
               opened, nreq, lastReq, via>>

\* The state of App::run (Part 6).
VARIABLES
    run_target,  \* run's target: the URL of the page to fetch
    rpc,         \* where run is
    fetched,     \* what self.fetch(target.clone()) returned
    run_ret      \* what run returned

runVars == <<run_target, rpc, fetched, run_ret>>

\* One call of a parser of src/lib/src/parser.rs (Part 7).
VARIABLES
    parser_in,   \* the input of the call
    parser_fn,   \* the parser called, "none" before the call
    parser_out   \* what the call returned

parserVars == <<parser_in, parser_fn, parser_out>>

\* One call of a function of src/src/wrapped.rs (Part 8).
VARIABLES
    wrap_source,  \* the document d
    wrap_width,   \* the width
    wrap_fn,      \* the function called, "none" before the call
    wrap_out      \* the WrappedDocument it returned

wrapVars == <<wrap_source, wrap_width, wrap_fn, wrap_out>>

\* One call of View::display of src/src/view.rs (Part 9).
VARIABLES
    view_pc,        \* where display is: "entry", "loop", "break", "returned",
                    \* "panicked"
    view_source,    \* the document displayed
    view,           \* the WrappedView, NoView before it is made
    view_evt,       \* the event read last
    event_ret,      \* what View::event returned for it
    display_ret,    \* what display returned
    raw_mode,       \* the terminal is in raw mode
    mouse_capture,  \* the terminal reports mouse events
    cursor_hidden   \* the terminal's cursor is hidden

viewVars ==
    <<view_pc, view_source, view, view_evt, event_ret, display_ret,
      raw_mode, mouse_capture, cursor_hidden>>

\* One call of App::display_doc of src/src/app.rs (Part 10).
VARIABLES
    dpc,            \* where display_doc is: "loop", "returned"
    app,            \* the App: has_cmd_error and size, and with them what the
                    \* command line at the bottom of the screen shows
    doc_evt,        \* the event of the last turn of the loop
    doc_input,      \* what Input::run returned in that turn, if it ran
    doc_ret         \* the Command display_doc returned

docVars == <<dpc, app, doc_evt, doc_input, doc_ret>>

\* What each subsystem leaves alone: the variables of the others.
outsideTofu == <<fetchVars, runVars, parserVars, wrapVars, viewVars, docVars>>
outsideFetch == <<tofuVars, runVars, parserVars, wrapVars, viewVars, docVars>>
outsideRun == <<tofuVars, fetchVars, parserVars, wrapVars, viewVars, docVars>>
outsideParser == <<tofuVars, fetchVars, runVars, wrapVars, viewVars, docVars>>
outsideWrap == <<tofuVars, fetchVars, runVars, parserVars, viewVars, docVars>>
outsideView == <<tofuVars, fetchVars, runVars, parserVars, wrapVars, docVars>>
outsideDoc == <<tofuVars, fetchVars, runVars, parserVars, wrapVars, viewVars>>

TofuInit ==
    /\ db = [h \in Hosts |-> NoRecord]
    /\ readers = {}
    /\ writer = NoThread
    /\ tpc = [t \in Threads |-> "idle"]
    /\ dns_name = [t \in Threads |-> Nil]
    /\ presented_certs = [t \in Threads |-> <<>>]
    /\ r = [t \in Threads |-> Nil]
    /\ ret = [t \in Threads |-> Nil]

\* presented_certs[0].as_ref(): the DER bytes of the leaf.
Leaf(certs) == certs[1]

\* A verifier that accepts a server presenting no certificate.
VerifyCall_EmptyAccepted(t) ==
    /\ tpc[t] = "idle"
    /\ \E h \in Hosts, certs \in PresentedChains :
        /\ dns_name' = [dns_name EXCEPT ![t] = h]
        /\ presented_certs' = [presented_certs EXCEPT ![t] = certs]
        /\ IF certs = <<>>
             THEN /\ ret' = [ret EXCEPT ![t] = "OK"]
                  /\ tpc' = [tpc EXCEPT ![t] = "done"]
             ELSE /\ ret' = ret
                  /\ tpc' = [tpc EXCEPT ![t] = "rdlock"]
    /\ UNCHANGED <<db, readers, writer, r>>
    /\ UNCHANGED outsideTofu

\* The TLS library calls verify_server_cert; an empty chain is refused at once.
VerifyCall(t) ==
    /\ tpc[t] = "idle"
    /\ \E h \in Hosts, certs \in PresentedChains :
        /\ dns_name' = [dns_name EXCEPT ![t] = h]
        /\ presented_certs' = [presented_certs EXCEPT ![t] = certs]
        /\ IF certs = <<>>
             THEN /\ ret' = [ret EXCEPT ![t] = "NoCertificatesPresented"]
                  /\ tpc' = [tpc EXCEPT ![t] = "done"]
             ELSE /\ ret' = ret
                  /\ tpc' = [tpc EXCEPT ![t] = "rdlock"]
    /\ UNCHANGED <<db, readers, writer, r>>
    /\ UNCHANGED outsideTofu

\* self.db.read(): granted while no writer holds the lock.
AcquireRead(t) ==
    /\ tpc[t] = "rdlock"
    /\ writer = NoThread
    /\ readers' = readers \cup {t}
    /\ tpc' = [tpc EXCEPT ![t] = "get"]
    /\ UNCHANGED <<db, writer, dns_name, presented_certs, r, ret>>
    /\ UNCHANGED outsideTofu

\* A lookup whose read guard lives on after the statement.
Get_GuardKept(t) ==
    /\ tpc[t] = "get"
    /\ r' = [r EXCEPT ![t] = db[dns_name[t]]]
    /\ tpc' = [tpc EXCEPT ![t] = "decide"]
    /\ UNCHANGED <<db, readers, writer, dns_name, presented_certs, ret>>
    /\ UNCHANGED outsideTofu

\* .get(&d), after which the temporary read guard is dropped.
Get(t) ==
    /\ tpc[t] = "get"
    /\ r' = [r EXCEPT ![t] = db[dns_name[t]]]
    /\ readers' = readers \ {t}
    /\ tpc' = [tpc EXCEPT ![t] = "decide"]
    /\ UNCHANGED <<db, writer, dns_name, presented_certs, ret>>
    /\ UNCHANGED outsideTofu

\* A verifier that, on a mismatch, pins the new certificate instead of refusing.
Decide_Repin(t) ==
    /\ tpc[t] = "decide"
    /\ IF r[t] # NoRecord
         THEN /\ ret' = [ret EXCEPT ![t] = "OK"]
              /\ db' = [db EXCEPT ![dns_name[t]] = Leaf(presented_certs[t])]
              /\ tpc' = [tpc EXCEPT ![t] = "done"]
         ELSE /\ ret' = ret
              /\ db' = db
              /\ tpc' = [tpc EXCEPT ![t] = "wrlock"]
    /\ UNCHANGED <<readers, writer, dns_name, presented_certs, r>>
    /\ UNCHANGED outsideTofu

\* if let Some(c) = r { compare } else { go and insert }
Decide(t) ==
    /\ tpc[t] = "decide"
    /\ IF r[t] # NoRecord
         THEN /\ ret' = [ret EXCEPT ![t] =
                    IF r[t] = Leaf(presented_certs[t])
                      THEN "OK" ELSE "CertNotValidForName"]
              /\ tpc' = [tpc EXCEPT ![t] = "done"]
         ELSE /\ ret' = ret
              /\ tpc' = [tpc EXCEPT ![t] = "wrlock"]
    /\ UNCHANGED <<db, readers, writer, dns_name, presented_certs, r>>
    /\ UNCHANGED outsideTofu

\* self.db.write(): granted while nobody holds the lock.
AcquireWrite(t) ==
    /\ tpc[t] = "wrlock"
    /\ writer = NoThread
    /\ readers = {}
    /\ writer' = t
    /\ tpc' = [tpc EXCEPT ![t] = "insert"]
    /\ UNCHANGED <<db, readers, dns_name, presented_certs, r, ret>>
    /\ UNCHANGED outsideTofu

\* A verifier that records the last certificate of the chain, not the leaf.
Insert_LastOfChain(t) ==
    /\ tpc[t] = "insert"
    /\ db' = [db EXCEPT ![dns_name[t]] =
                 presented_certs[t][Len(presented_certs[t])]]
    /\ writer' = NoThread
    /\ ret' = [ret EXCEPT ![t] = "OK"]
    /\ tpc' = [tpc EXCEPT ![t] = "done"]
    /\ UNCHANGED <<readers, dns_name, presented_certs, r>>
    /\ UNCHANGED outsideTofu

\* .insert(d, presented_certs[0]): sled's insert sets the key whatever it held.
Insert(t) ==
    /\ tpc[t] = "insert"
    /\ db' = [db EXCEPT ![dns_name[t]] = Leaf(presented_certs[t])]
    /\ writer' = NoThread
    /\ ret' = [ret EXCEPT ![t] = "OK"]
    /\ tpc' = [tpc EXCEPT ![t] = "done"]
    /\ UNCHANGED <<readers, dns_name, presented_certs, r>>
    /\ UNCHANGED outsideTofu

\* The call returns to the TLS library; the thread may call again.
VerifyReturn(t) ==
    /\ tpc[t] = "done"
    /\ tpc' = [tpc EXCEPT ![t] = "idle"]
    /\ dns_name' = [dns_name EXCEPT ![t] = Nil]
    /\ presented_certs' = [presented_certs EXCEPT ![t] = <<>>]
    /\ r' = [r EXCEPT ![t] = Nil]
    /\ ret' = [ret EXCEPT ![t] = Nil]
    /\ UNCHANGED <<db, readers, writer>>
    /\ UNCHANGED outsideTofu

\* The steps of the calls when each thread makes one call: a call that has
\* returned is not followed by another.
TofuNextOneCall ==
    \E t \in Threads :
        \/ VerifyCall(t)
        \/ AcquireRead(t)
        \/ Get(t)
        \/ Decide(t)
        \/ AcquireWrite(t)
        \/ Insert(t)

TofuNext ==
    \E t \in Threads :
        \/ VerifyCall(t)
        \/ AcquireRead(t)
        \/ Get(t)
        \/ Decide(t)
        \/ AcquireWrite(t)
        \/ Insert(t)
        \/ VerifyReturn(t)


(***************************************************************************)
(* Part 2: text.  A string is a sequence of one-character strings.         *)
(***************************************************************************)

CR == "\r"
LF == "\n"
TAB == "\t"
SP == " "
\* U+0060, the grave accent of a fence (a TLA+ string cannot hold it)
BQ == "BQ"

\* Option<T>: None, or Some(v).
None == <<>>
Some(v) == <<v>>
IsSome(o) == Len(o) = 1
Unwrap(o) == o[1]

\* &s[..n] and &s[n..]
Take(s, n) == SubSeq(s, 1, n)
Drop(s, n) == SubSeq(s, n + 1, Len(s))

\* str::starts_with, nom's tag
StartsWith(s, p) == Len(p) <= Len(s) /\ SubSeq(s, 1, Len(p)) = p

\* The length of the longest prefix of s whose characters satisfy "is in set"
\* (inSet = TRUE) or "is not in set" (inSet = FALSE).
RECURSIVE Span(_, _, _)
Span(s, set, inSet) ==
    IF s = <<>> \/ ((Head(s) \in set) # inSet)
      THEN 0
      ELSE 1 + Span(Tail(s), set, inSet)

(***************************************************************************)
(* Part 3: the text/gemini parser (src/lib/src/parser.rs).  A parser       *)
(* returns [ok, rest, out] as nom's IResult: rest is the unconsumed input. *)
(***************************************************************************)

Fail == [ok |-> FALSE]
Ok(rest, out) == [ok |-> TRUE, rest |-> rest, out |-> out]

Text(t) == [tag |-> "Text", s |-> t]
BareLink(u) == [tag |-> "BareLink", url |-> u]
NamedLink(u, n) == [tag |-> "NamedLink", url |-> u, name |-> n]
Pre(a, t) == [tag |-> "Pre", alt |-> a, text |-> t]
H1(t) == [tag |-> "H1", s |-> t]
H2(t) == [tag |-> "H2", s |-> t]
H3(t) == [tag |-> "H3", s |-> t]
List(t) == [tag |-> "List", s |-> t]
Quote(t) == [tag |-> "Quote", s |-> t]

\* Line constructors by name, for read_prefixed's closure argument.
MkLine(tag, t) == [tag |-> tag, s |-> t]

\* char::is_whitespace, on the characters of the model
Whitespace == {SP, TAB, CR, LF}

\* nom's space0: spaces and tabs
space0(input) == Span(input, {SP, TAB}, TRUE)

\* The number of characters of the line terminator rest starts with:
\* alt((tag("\r\n"), tag("\n"), tag("")))
Terminator(rest) ==
    IF StartsWith(rest, <<CR, LF>>) THEN 2
    ELSE IF StartsWith(rest, <<LF>>) THEN 1
    ELSE 0

\* read_line, given the length n of the run of characters before CR or LF
line_at(input, n) ==
    Ok(Drop(Drop(input, n), Terminator(Drop(input, n))), Take(input, n))

\* terminated(alt((is_not("\r\n"), tag(""))), alt((tag("\r\n"), tag("\n"), tag(""))))
read_line(input) == line_at(input, Span(input, {CR, LF}, FALSE))

\* space0, then the rest of the input
skip_space0(input) == Drop(input, space0(input))

\* f(o), for the line l that read_line returned
prefixed(tag, l) == Ok(l.rest, MkLine(tag, l.out))

\* tuple((tag(t), space0, read_line))
read_prefixed(input, t, tag) ==
    IF ~StartsWith(input, t)
      THEN Fail
      ELSE prefixed(tag, read_line(skip_space0(Drop(input, Len(t)))))

parse_line_h1(input) == read_prefixed(input, <<"#">>, "H1")
parse_line_h2(input) == read_prefixed(input, <<"#", "#">>, "H2")
parse_line_h3(input) == read_prefixed(input, <<"#", "#", "#">>, "H3")
parse_line_list(input) == read_prefixed(input, <<"*", SP>>, "List")
parse_line_quote(input) == read_prefixed(input, <<">">>, "Quote")

\* A link parser that names every link, with an empty name if need be.
link_line_AlwaysNamed(target, l) ==
    Ok(l.rest, NamedLink(target, l.out))

\* The link line, from its url and the line l read after it
link_line(target, l) ==
    Ok(l.rest,
       IF l.out = <<>> THEN BareLink(target) ELSE NamedLink(target, l.out))

\* terminated(take_till(char::is_whitespace), space0), read_line: b is the
\* input after "=>" and spaces, n the length of the url
link_at(b, n) == link_line(Take(b, n), read_line(skip_space0(Drop(b, n))))

\* take_till(char::is_whitespace)
link_from(b) == link_at(b, Span(b, Whitespace, FALSE))

parse_line_link(input) ==
    IF ~StartsWith(input, <<"=", ">">>)
      THEN Fail
      ELSE link_from(skip_space0(Drop(input, 2)))

Fence == <<BQ, BQ, BQ>>
FenceLine == <<LF>> \o Fence \o <<LF>>

\* nom's take_until(pat): the number of characters before the first
\* occurrence of pat in s, or -1 when there is none.
RECURSIVE take_until(_, _)
found_after(k) == IF k < 0 THEN -1 ELSE k + 1
take_until(s, pat) ==
    IF StartsWith(s, pat) THEN 0
    ELSE IF s = <<>> THEN -1
    ELSE found_after(take_until(Tail(s), pat))

\* The block, given its alt and the place k of the closing fence in rest
pre_block(alt, rest, k) ==
    IF k < 0
      THEN Fail
      ELSE Ok(Drop(rest, k + Len(FenceLine)), Pre(alt, Take(rest, k)))

\* take_until("\n```\n"), tag("\n```\n"), after the opening line l
pre_after(l) ==
    pre_block(IF l.out = <<>> THEN None ELSE Some(l.out), l.rest,
              take_until(l.rest, FenceLine))

parse_pre(input) ==
    IF ~StartsWith(input, Fence)
      THEN Fail
      ELSE pre_after(read_line(Drop(input, 3)))

\* The text line, from the line l that read_line returned
text_line(l) == Ok(l.rest, Text(l.out))

parse_line_text(input) == text_line(read_line(input))

\* nom's alt: the result of the first parser that succeeds
first_ok(results) ==
    results[CHOOSE i \in 1..Len(results) :
                results[i].ok /\ \A j \in 1..(i - 1) : ~results[j].ok]

\* alt((h3, h2, h1, list, quote, link, pre, text))
parse_line(input) ==
    first_ok(<<parse_line_h3(input), parse_line_h2(input), parse_line_h1(input),
               parse_line_list(input), parse_line_quote(input),
               parse_line_link(input), parse_pre(input),
               parse_line_text(input)>>)

\* while !input.is_empty() { parse_line; push }.  An iteration that consumes
\* nothing repeats for ever: the call then never returns (hang = TRUE).
RECURSIVE parse_loop(_, _)
RECURSIVE parse_step(_, _, _)
parse_step(input, out, p) ==
    IF ~p.ok
      THEN [ok |-> FALSE, hang |-> FALSE, rest |-> input, doc |-> out]
    ELSE IF p.rest = input
      THEN [ok |-> FALSE, hang |-> TRUE, rest |-> input, doc |-> out]
    ELSE parse_loop(p.rest, Append(out, p.out))

parse_loop(input, out) ==
    IF input = <<>>
      THEN [ok |-> TRUE, hang |-> FALSE, rest |-> input, doc |-> out]
      ELSE parse_step(input, out, parse_line(input))

parse_text_gemini(input) == parse_loop(input, <<>>)

(***************************************************************************)
(* Part 4: URLs, as the url crate handles the texts of the model: a scheme *)
(* and ':', then '//' and a host or no host at all, a path, '?' and a      *)
(* query.  Ports, user names and fragments do not occur in the model.      *)
(***************************************************************************)

sGemini == <<"g", "e", "m", "i", "n", "i">>
sHttp == <<"h", "t", "t", "p">>
sText == <<"t", "e", "x", "t">>

Letters == {"a", "b", "c", "d", "e", "f", "g", "h", "i", "j", "k", "l", "m",
            "n", "o", "p", "q", "r", "s", "t", "u", "v", "w", "x", "y", "z"}
Digits == {"0", "1", "2", "3", "4", "5", "6", "7", "8", "9"}

Url(scheme, host, path, query) ==
    [scheme |-> scheme, host |-> host, path |-> path, query |-> query]

\* The schemes the url crate calls special: an empty path becomes "/".
SpecialSchemes == {sHttp}

\* The path and the query: tail is the text after the host, pn the length of
\* the path in it
Url_from_tail(scheme, host, tail, pn) ==
    [ok |-> TRUE,
     url |-> Url(scheme, host,
                 IF pn = 0 /\ scheme \in SpecialSchemes THEN <<"/">> ELSE Take(tail, pn),
                 IF pn < Len(tail) THEN Some(Drop(tail, pn + 1)) ELSE None)]

\* after is the text after "//", hn the length of the host in it
Url_with_host(scheme, after, hn) ==
    IF hn = 0
      THEN [ok |-> FALSE, err |-> "EmptyHost"]
      ELSE Url_from_tail(scheme, Some(Take(after, hn)), Drop(after, hn),
                         Span(Drop(after, hn), {"?"}, FALSE))

\* rest is the text after the scheme and ':'
Url_after_scheme(scheme, rest) ==
    IF StartsWith(rest, <<"/", "/">>)
      THEN Url_with_host(scheme, Drop(rest, 2), Span(Drop(rest, 2), {"/", "?"}, FALSE))
      ELSE Url_from_tail(scheme, None, rest, Span(rest, {"?"}, FALSE))

\* n is the length of the run of scheme characters text starts with
Url_at(text, n) ==
    IF n = 0 \/ n = Len(text) \/ text[n + 1] # ":" \/ text[1] \notin Letters
      THEN [ok |-> FALSE, err |-> "RelativeUrlWithoutBase"]
      ELSE Url_after_scheme(Take(text, n), Drop(text, n + 1))

\* url::Url::parse(text) with no base URL: [ok, url] or [ok, err].
Url_parse(text) ==
    Url_at(text, Span(text, Letters \cup Digits \cup {"+", "-", "."}, TRUE))

\* The directory of a path: the path up to and with its last '/'
Directory(path) ==
    IF \E i \in 1..Len(path) : path[i] = "/"
      THEN Take(path, CHOOSE i \in 1..Len(path) :
                        path[i] = "/" /\ \A j \in (i + 1)..Len(path) : path[j] # "/")
      ELSE <<"/">>

\* The reference resolved against base, the reference not being a URL itself:
\* empty, a query, an absolute path, or a path relative to base's directory
Url_resolve(base, reference) ==
    IF reference = <<>> THEN [ok |-> TRUE, url |-> base]
    ELSE IF Head(reference) = "?"
      THEN [ok |-> TRUE, url |-> [base EXCEPT !.query = Some(Tail(reference))]]
    ELSE IF Head(reference) = "/"
      THEN Url_from_tail(base.scheme, base.host, reference,
                         Span(reference, {"?"}, FALSE))
    ELSE Url_from_tail(base.scheme, base.host, Directory(base.path) \o reference,
                       Span(Directory(base.path) \o reference, {"?"}, FALSE))

\* The result of Url::parse(reference), or the reference resolved against base
Url_joined(base, reference, parsed) ==
    IF parsed.ok THEN parsed
    ELSE IF parsed.err = "RelativeUrlWithoutBase" THEN Url_resolve(base, reference)
    ELSE parsed

\* base.join(reference): Url::parse with base as the base URL
Url_join(base, reference) == Url_joined(base, reference, Url_parse(reference))

\* url.as_str(): the canonical text of a URL
Url_as_str(u) ==
    u.scheme \o <<":">>
      \o (IF IsSome(u.host) THEN <<"/", "/">> \o Unwrap(u.host) ELSE <<>>)
      \o u.path
      \o (IF IsSome(u.query) THEN <<"?">> \o Unwrap(u.query) ELSE <<>>)

\* url.set_query(Some(q)): q replaces the query, if any.  (The characters
\* byte_serialize produces need no further escaping in a query.)
Url_set_query(u, q) == [u EXCEPT !.query = Some(q)]

\* webpki::DNSNameRef::try_from_ascii_str(hostname).is_ok(), on the host
\* names of the model: labels of letters, digits and '-', the name not
\* empty and not all-numeric.
DnsNameOk(hostname) ==
    /\ hostname # <<>>
    /\ \A i \in 1..Len(hostname) : hostname[i] \in Letters \cup Digits \cup {"-", "."}
    /\ \E i \in 1..Len(hostname) : hostname[i] \in Letters

\* percent_encode_byte, for the ASCII characters of the model
PercentEncodeByte(c) ==
    CASE c = SP -> <<"%", "2", "0">>
      [] c = "?" -> <<"%", "3", "F">>
      [] c = "+" -> <<"%", "2", "B">>
      [] c = "%" -> <<"%", "2", "5">>
      [] c = "/" -> <<"%", "2", "F">>
      [] c = "&" -> <<"%", "2", "6">>

\* url::form_urlencoded::byte_serialize: letters, digits and * - . _ stay,
\* a space becomes '+', every other byte becomes %XX.
byte_serialize_one(c) ==
    IF c \in Letters \cup Digits \cup {"*", "-", ".", "_"} THEN <<c>>
    ELSE IF c = SP THEN <<"+">>
    ELSE PercentEncodeByte(c)

RECURSIVE byte_serialize(_)
byte_serialize(input) ==
    IF input = <<>> THEN <<>>
    ELSE byte_serialize_one(Head(input)) \o byte_serialize(Tail(input))

(***************************************************************************)
(* Part 5: the fetch engines.                                              *)
(*   "app": App::fetch_ of src/src/app.rs, which follows redirects and     *)
(*          prompts for input itself and ends in a Command;                *)
(*   "lib": fetch_ of src/lib/src/fetch.rs, which hands every response     *)
(*          back to its caller as an OwnedDocument.                        *)
(* Both read the response with the same read() (app.rs:62-88 and           *)
(* lib/src/fetch.rs:10-38 are the same code).                              *)
(***************************************************************************)

\* `if depth >= 5`
MaxDepth == 5

\* The longest text the user types at one prompt.
MaxInput == 2

Engines == {"app", "lib"}

\* Status::try_from(code): the eighteen status codes
StatusOf(code) ==
    CASE code = 10 -> "Input"
      [] code = 11 -> "SensitiveInput"
      [] code = 20 -> "Success"
      [] code = 30 -> "RedirectTemporary"
      [] code = 31 -> "RedirectPermanent"
      [] code = 40 -> "TemporaryFailure"
      [] code = 41 -> "ServerUnavailable"
      [] code = 42 -> "CGIError"
      [] code = 43 -> "ProxyError"
      [] code = 44 -> "SlowDown"
      [] code = 50 -> "PermanentFailure"
      [] code = 51 -> "NotFound"
      [] code = 52 -> "Gone"
      [] code = 53 -> "ProxyRequestRefused"
      [] code = 59 -> "BadRequest"
      [] code = 60 -> "ClientCertificateRequired"
      [] code = 61 -> "CertificateNotAuthorized"
      [] code = 62 -> "CertificateNotValid"
      [] OTHER -> "InvalidStatusCode"

\* A byte that is not valid UTF-8 wherever it stands (0xFF).
BadByte == "0xFF"

\* std::str::from_utf8(body).is_ok()
Utf8Ok(body) == \A i \in 1..Len(body) : body[i] # BadByte

\* The texts of the model.
UrlTextA == sGemini \o <<":", "/", "/", "a">>
UrlTextB == sGemini \o <<":", "/", "/", "b">>
UrlTextQ == sGemini \o <<":", "/", "/", "q", "?", "o">>
UrlTextHttp == sHttp \o <<":", "/", "/", "a">>
UrlTextNoHost == sGemini \o <<":", "x">>
UrlTextNumeric == sGemini \o <<":", "/", "/", "1">>
UrlTextRelative == <<"/", "x">>

MetaTextGemini == sText \o <<"/">> \o sGemini
MetaTextGeminiParam == MetaTextGemini \o <<";", "l">>
MetaTextPlain == sText \o <<"/", "x">>
MetaImage == <<"i", "/", "x">>
MetaPrompt == <<"Q", "?">>
MetaNote == <<"n">>

BodyOk == <<"o", "k", LF>>
BodyBadUtf8 == <<"o", BadByte>>
BodyLoneCr == <<"o", CR, "k">>

\* The URLs fetch is called with.
InitialUrls ==
    {Url_parse(t).url :
        t \in {UrlTextA, UrlTextQ, UrlTextHttp, UrlTextNoHost, UrlTextNumeric}}

\* What a server may answer: a header with two digits, a meta and a body, or
\* bytes that are no header at all.
Malformed == [malformed |-> TRUE]
Reply(code, meta, body) ==
    [malformed |-> FALSE, code |-> code, meta |-> meta, body |-> body]

ServerReplies ==
    {Malformed}
    \cup {Reply(c, m, <<>>) :
            c \in {30, 31},
            m \in {UrlTextA, UrlTextB, UrlTextRelative, <<>>, UrlTextHttp,
                   UrlTextNoHost}}
    \cup {Reply(c, MetaPrompt, <<>>) : c \in {10, 11}}
    \cup {Reply(20, m, b) :
            m \in {MetaTextGemini, MetaTextGeminiParam, MetaTextPlain, MetaImage},
            b \in {BodyOk, BodyBadUtf8, BodyLoneCr}}
    \cup {Reply(c, MetaNote, <<>>) :
            c \in {40, 41, 42, 43, 44, 50, 51, 52, 53, 59, 60, 61, 62, 19}}

\* What the network may do with one request.
NetEvents ==
    {[net |-> e] : e \in {"connect failed", "handshake failed", "read failed"}}
    \cup {[net |-> "reply", reply |-> rp] : rp \in ServerReplies}

\* parse_response(&plaintext): every failure of the header parser, an unknown
\* status code included, is mapped to Error::ParseError.
parse_response(reply) ==
    IF reply.malformed \/ StatusOf(reply.code) = "InvalidStatusCode"
      THEN [ok |-> FALSE, err |-> "ParseError"]
      ELSE [ok |-> TRUE,
            response |-> [status |-> StatusOf(reply.code),
                          meta |-> reply.meta, body |-> reply.body]]

\* The Commands display_doc may return: what the user does in the viewport.
ViewCommands == {"Exit", "Load", "TryLoad"}

\* The characters the user types at a prompt.
TypedChars == {"c", SP}

\* crossterm events read by Input::run: key events (the modifiers matter for
\* Char('c') only) and one event that is no key (a mouse event, a resize).
KeyEvent(code, modifiers) == [key |-> TRUE, code |-> code, modifiers |-> modifiers]
Events ==
    {KeyEvent(c, "NONE") : c \in {"Enter", "Esc", "Backspace", "Tab"} \cup TypedChars}
    \cup {KeyEvent("c", "CONTROL"), [key |-> FALSE]}

\* fetch has not returned; no response has been read; no event has been read.
NoOutcome == [kind |-> "NoOutcome"]
NoResponse == [status |-> "NoResponse"]
NoEvent == [key |-> FALSE, code |-> "NoEvent"]

Err(e) == [kind |-> "Err", err |-> e]

\* Ok(cmd) of App::fetch_: shown is the document display_doc showed, if any
Command(cmd, shown) == [kind |-> "Command", cmd |-> cmd, shown |-> shown]

\* Ok(OwnedDocument) of the library's fetch_: the response and its document
OwnedDocument(resp, doc) ==
    [kind |-> "OwnedDocument", status |-> resp.status, meta |-> resp.meta,
     doc |-> doc]

FetchIdle ==
    /\ engine = Nil /\ fpc = "idle" /\ url = Nil /\ depth = 0
    /\ response = NoResponse /\ buf = <<>> /\ evt = NoEvent /\ entered = None
    /\ outcome = NoOutcome
    /\ opened = 0 /\ nreq = 0 /\ lastReq = <<>> /\ via = None

\* fetch(url): fetch_(url, 0)
FetchInit ==
    /\ engine \in Engines
    /\ fpc = "enter"
    /\ url \in InitialUrls
    /\ depth = 0
    /\ response = NoResponse /\ buf = <<>> /\ evt = NoEvent /\ entered = None
    /\ outcome = NoOutcome
    /\ opened = 0 /\ nreq = 0 /\ lastReq = <<>> /\ via = None

Finish(o) ==
    /\ outcome' = o
    /\ fpc' = "done"

\* A read() that connects whatever the scheme of the URL.
FetchEnter_SchemeUnchecked ==
    /\ fpc = "enter"
    /\ IF depth >= MaxDepth
         THEN Finish(Err("TooManyRedirects"))
       ELSE IF ~IsSome(url.host)
         THEN Finish(Err("NoHostname"))
       ELSE IF ~DnsNameOk(Unwrap(url.host))
         THEN Finish(Err("InvalidDNSNameError"))
       ELSE fpc' = "connect" /\ outcome' = outcome
    /\ UNCHANGED <<engine, url, depth, response, buf, evt, entered, opened,
                   nreq, lastReq, via>>
    /\ UNCHANGED outsideFetch

\* The head of fetch_ and of read(): the depth limit, then the scheme, the
\* host and the DNS name, all before any connection.
FetchEnter ==
    /\ fpc = "enter"
    /\ IF depth >= MaxDepth
         THEN Finish(Err("TooManyRedirects"))
       ELSE IF url.scheme # sGemini
         THEN Finish(Err("InvalidURLScheme"))
       ELSE IF ~IsSome(url.host)
         THEN Finish(Err("NoHostname"))
       ELSE IF ~DnsNameOk(Unwrap(url.host))
         THEN Finish(Err("InvalidDNSNameError"))
       ELSE fpc' = "connect" /\ outcome' = outcome
    /\ UNCHANGED <<engine, url, depth, response, buf, evt, entered, opened,
                   nreq, lastReq, via>>
    /\ UNCHANGED outsideFetch

\* let response = parse_response(&plaintext)?;
Parsed(p) ==
    IF p.ok
      THEN /\ response' = p.response
           /\ fpc' = "dispatch"
           /\ outcome' = outcome
      ELSE Finish(Err(p.err)) /\ response' = response

\* The rest of read(): connect, handshake and send the request line, read to
\* the end of the stream (a ConnectionAborted there is a clean close); then
\* parse_response.
Exchange ==
    /\ fpc = "connect"
    /\ \E ev \in NetEvents :
        /\ opened' = IF ev.net = "connect failed" THEN opened ELSE opened + 1
        /\ nreq' = IF ev.net \in {"read failed", "reply"} THEN nreq + 1 ELSE nreq
        /\ lastReq' = IF ev.net \in {"read failed", "reply"}
                        THEN Url_as_str(url) \o <<CR, LF>> ELSE lastReq
        /\ IF ev.net \in {"connect failed", "read failed"}
             THEN Finish(Err("IOError")) /\ response' = response
           ELSE IF ev.net = "handshake failed"
             THEN Finish(Err("TLSError")) /\ response' = response
           ELSE Parsed(parse_response(ev.reply))
    /\ UNCHANGED <<engine, url, depth, buf, evt, entered, via>>
    /\ UNCHANGED outsideFetch

\* parse_text_gemini(body), its failure mapped to an error
GeminiDocument(p) ==
    IF p.hang THEN [ok |-> FALSE, hang |-> TRUE]
    ELSE IF ~p.ok THEN [ok |-> FALSE, hang |-> FALSE, err |-> "ParseError"]
    ELSE [ok |-> TRUE, doc |-> p.doc]

\* The Success arm: the document of a response, or the error.
SuccessDocument(resp) ==
    IF StartsWith(resp.meta, MetaTextGemini)
      THEN IF ~Utf8Ok(resp.body)
             THEN [ok |-> FALSE, hang |-> FALSE, err |-> "Utf8Error"]
             ELSE GeminiDocument(parse_text_gemini(resp.body))
    ELSE IF StartsWith(resp.meta, sText \o <<"/">>)
      THEN IF ~Utf8Ok(resp.body)
             THEN [ok |-> FALSE, hang |-> FALSE, err |-> "Utf8Error"]
             ELSE [ok |-> TRUE, doc |-> <<Pre(None, resp.body)>>]
    ELSE [ok |-> FALSE, hang |-> FALSE, err |-> "UnknownMeta"]

Redirects == {"RedirectTemporary", "RedirectPermanent"}
Inputs == {"Input", "SensitiveInput"}

\* fetch_(next, depth + 1)
ReEnter(next, why) ==
    /\ url' = next
    /\ depth' = depth + 1
    /\ via' = Some(why)
    /\ fpc' = "enter"

\* A redirect arm that asks the redirecting URL again, whatever meta names.
AppRedirect_SameUrl(next) ==
    IF next.ok
      THEN /\ ReEnter(url, [url |-> url, response |-> response,
                            input |-> None])
           /\ UNCHANGED <<outcome, buf, evt>>
      ELSE /\ Finish(Err("UrlParseError"))
           /\ UNCHANGED <<url, depth, via, buf, evt>>

\* let next = url::Url::parse(response.meta)?; self.fetch_(next, depth + 1)
AppRedirect(next) ==
    IF next.ok
      THEN /\ ReEnter(next.url, [url |-> url, response |-> response,
                                 input |-> None])
           /\ UNCHANGED <<outcome, buf, evt>>
      ELSE /\ Finish(Err("UrlParseError"))
           /\ UNCHANGED <<url, depth, via, buf, evt>>

\* Ok(self.display_doc(&doc)), or the error of the Success arm
AppSuccess(d) ==
    /\ IF d.ok
         THEN \E cmd \in ViewCommands : Finish(Command(cmd, Some(d.doc)))
       ELSE IF d.hang
         THEN fpc' = "hung" /\ outcome' = outcome
       ELSE Finish(Err(d.err))
    /\ UNCHANGED <<url, depth, via, buf, evt>>

\* `_ => Ok(Command::Exit)`
AppOtherStatus ==
    /\ Finish(Command("Exit", None))
    /\ UNCHANGED <<url, depth, via, buf, evt>>

\* App::fetch_: match response.status
AppDispatch ==
    /\ engine = "app"
    /\ fpc = "dispatch"
    /\ IF response.status \in Redirects
         THEN AppRedirect(Url_parse(response.meta))
       ELSE IF response.status \in Inputs
         THEN /\ buf' = <<>>
              /\ evt' = NoEvent
              /\ fpc' = "input"
              /\ UNCHANGED <<url, depth, via, outcome>>
       ELSE IF response.status = "Success"
         THEN AppSuccess(SuccessDocument(response))
       ELSE AppOtherStatus
    /\ UNCHANGED <<engine, response, entered, opened, nreq, lastReq>>
    /\ UNCHANGED outsideFetch

\* A widget that only Ctrl-C cancels: Esc is a key like Tab.
Input_key_EscIgnored(b, k) ==
    IF k.code = "c" /\ k.modifiers = "CONTROL"
      THEN [alive |-> FALSE, buf |-> b]
    ELSE IF k.code = "Backspace"
      THEN [alive |-> TRUE, buf |-> IF b # <<>> THEN Take(b, Len(b) - 1) ELSE b]
    ELSE IF k.code \in TypedChars
      THEN [alive |-> TRUE, buf |-> Append(b, k.code)]
    ELSE [alive |-> TRUE, buf |-> b]

\* Input::key: [alive, buf]
Input_key(b, k) ==
    IF (k.code = "c" /\ k.modifiers = "CONTROL") \/ k.code = "Esc"
      THEN [alive |-> FALSE, buf |-> b]
    ELSE IF k.code = "Backspace"
      THEN [alive |-> TRUE, buf |-> IF b # <<>> THEN Take(b, Len(b) - 1) ELSE b]
    ELSE IF k.code \in TypedChars
      THEN [alive |-> TRUE, buf |-> Append(b, k.code)]
    ELSE [alive |-> TRUE, buf |-> b]

\* `if !self.key(event) { return None; }`
Keyed(k) ==
    /\ Len(k.buf) <= MaxInput
    /\ buf' = k.buf
    /\ IF k.alive
         THEN UNCHANGED <<fpc, entered>>
         ELSE entered' = None /\ fpc' = "prompted"

\* One turn of the loop of Input::run
InputEvent ==
    /\ fpc = "input"
    /\ evt' \in Events
    /\ IF ~evt'.key
         THEN UNCHANGED <<fpc, buf, entered>>
       ELSE IF evt'.code = "Enter"
         THEN /\ entered' = Some(buf)
              /\ fpc' = "prompted"
              /\ buf' = buf
       ELSE Keyed(Input_key(buf, evt'))
    /\ UNCHANGED <<engine, url, depth, response, outcome, opened, nreq,
                   lastReq, via>>
    /\ UNCHANGED outsideFetch

\* App::fetch_, after Input::run returned
AppAfterInput ==
    /\ engine = "app"
    /\ fpc = "prompted"
    /\ IF IsSome(entered)
         THEN /\ ReEnter(Url_set_query(url, byte_serialize(Unwrap(entered))),
                         [url |-> url, response |-> response, input |-> entered])
              /\ outcome' = outcome
         ELSE /\ Finish(Err("InputCancelled"))
              /\ UNCHANGED <<url, depth, via>>
    /\ UNCHANGED <<engine, response, buf, evt, entered, opened, nreq, lastReq>>
    /\ UNCHANGED outsideFetch

\* OwnedDocument::try_new(response, |body| ...)
LibSuccess(d) ==
    IF d.ok THEN Finish(OwnedDocument(response, Some(d.doc)))
    ELSE IF d.hang THEN fpc' = "hung" /\ outcome' = outcome
    ELSE Finish(Err(d.err))

\* The library's fetch_: a document for Success, the bare response otherwise
LibDispatch ==
    /\ engine = "lib"
    /\ fpc = "dispatch"
    /\ IF response.status = "Success"
         THEN LibSuccess(SuccessDocument(response))
         ELSE Finish(OwnedDocument(response, None))
    /\ UNCHANGED <<engine, url, depth, response, buf, evt, entered, opened,
                   nreq, lastReq, via>>
    /\ UNCHANGED outsideFetch

FetchNext ==
    \/ FetchEnter
    \/ Exchange
    \/ AppDispatch
    \/ InputEvent
    \/ AppAfterInput
    \/ LibDispatch


(***************************************************************************)
(* Part 6: the loop of the application, App::run (src/src/app.rs).  One    *)
(* turn calls fetch, whose result is any of those the fetch engine can     *)
(* return for the target, and then matches the command.                    *)
(***************************************************************************)

\* Result<()> of run: not yet returned, or Ok(())
NoReturn == [kind |-> "NoReturn"]
RunOk == [kind |-> "Ok"]

\* The errors App::fetch_ can end in once read() has accepted the URL.
FetchErrors ==
    {"TooManyRedirects", "InvalidURLScheme", "NoHostname", "InvalidDNSNameError",
     "IOError", "TLSError", "ParseError", "UrlParseError", "Utf8Error",
     "UnknownMeta", "InputCancelled"}

\* An http URL with no host: url::Url::parse refuses it with EmptyHost.
UrlTextEmptyHost == sHttp \o <<":", "/", "/">>

\* A reference relative to the directory of the current URL.
UrlTextSibling == <<"y">>

\* The commands fetch can return: Exit, Load(url) from the command line,
\* TryLoad(s) from a link of the page.
Exit == [kind |-> "Command", cmd |-> "Exit"]
Load(u) == [kind |-> "Command", cmd |-> "Load", url |-> u]
TryLoad(t) == [kind |-> "Command", cmd |-> "TryLoad", s |-> t]

RunCommands ==
    {Exit}
    \cup {Load(Url_parse(t).url) : t \in {UrlTextB, UrlTextHttp, UrlTextNoHost}}
    \cup {TryLoad(t) : t \in {UrlTextA, UrlTextQ, UrlTextHttp, UrlTextRelative,
                             UrlTextSibling, <<>>, UrlTextEmptyHost}}

RunIdle ==
    /\ run_target = Nil /\ rpc = "idle" /\ fetched = NoOutcome
    /\ run_ret = NoReturn

\* run(target)
RunInit ==
    /\ run_target \in InitialUrls
    /\ rpc = "fetch"
    /\ fetched = NoOutcome
    /\ run_ret = NoReturn

\* self.fetch(target.clone()): read() refuses the target before connecting,
\* or the call ends in one of the engine's outcomes.
RunFetch ==
    /\ rpc = "fetch"
    /\ IF run_target.scheme # sGemini
         THEN fetched' = Err("InvalidURLScheme")
       ELSE IF ~IsSome(run_target.host)
         THEN fetched' = Err("NoHostname")
       ELSE IF ~DnsNameOk(Unwrap(run_target.host))
         THEN fetched' = Err("InvalidDNSNameError")
       ELSE fetched' \in {Err(e) : e \in FetchErrors} \cup RunCommands
    /\ rpc' = "match"
    /\ UNCHANGED <<run_target, run_ret>>
    /\ UNCHANGED outsideRun

\* A loop that drops what a link resolves to and fetches the same page again.
Retarget_Ignored(next) ==
    run_target' = run_target

\* Ok(url) => target = url; Err(e) => continue
Retarget(next) ==
    run_target' = IF next.ok THEN next.url ELSE run_target

\* The ? of `self.fetch(target.clone())?`, then the match on the command
RunMatch ==
    /\ rpc = "match"
    /\ IF fetched.kind = "Err"
         THEN /\ run_ret' = fetched
              /\ rpc' = "returned"
              /\ run_target' = run_target
       ELSE IF fetched.cmd = "Exit"
         THEN /\ run_ret' = RunOk
              /\ rpc' = "returned"
              /\ run_target' = run_target
       ELSE IF fetched.cmd = "Load"
         THEN /\ run_target' = fetched.url
              /\ rpc' = "fetch"
              /\ run_ret' = run_ret
       ELSE /\ Retarget(Url_join(run_target, fetched.s))
            /\ rpc' = "fetch"
            /\ run_ret' = run_ret
    /\ fetched' = fetched
    /\ UNCHANGED outsideRun

RunNext ==
    \/ RunFetch
    \/ RunMatch

(***************************************************************************)
(* Part 7: the parsers of src/lib/src/parser.rs, each called on its own    *)
(* with an input drawn from the texts below.                               *)
(***************************************************************************)

\* The digits in order: the value of a digit is its place less one.
DigitChars == <<"0", "1", "2", "3", "4", "5", "6", "7", "8", "9">>
digit_value(c) == (CHOOSE n \in 1..10 : DigitChars[n] = c) - 1

\* u32::from_str_radix(s, 10), for the two digits take_while_m_n matched
from_str_radix(s) == 10 * digit_value(s[1]) + digit_value(s[2])

\* take_while_m_n(0, 1024, ..): the longest meta
MaxMeta == 1024

\* nom::Err::Error((input, kind))
NomErr(kind) == [ok |-> FALSE, kind |-> kind]

\* The number of bytes of input before its first '\r'
until_cr(input) ==
    IF \A i \in 1..Len(input) : input[i] # CR
      THEN Len(input)
      ELSE (CHOOSE i \in 1..Len(input) :
                input[i] = CR /\ \A j \in 1..(i - 1) : input[j] # CR) - 1

\* A meta of any length.
meta_len_Unbounded(n) == n

\* take_while_m_n(0, 1024, |c: u8| c != b'\r'): the length of what it takes
meta_len(n) == IF n > MaxMeta THEN MaxMeta ELSE n

\* A header parser that leaves the CR LF of the header to the body.
meta_at_TerminatorLeft(status, input, n) ==
    IF ~StartsWith(Drop(input, n), <<CR, LF>>) THEN NomErr("Tag")
    ELSE IF ~Utf8Ok(Take(input, n)) THEN NomErr("MapRes")
    ELSE Ok(Drop(input, n), [status |-> status, meta |-> Take(input, n)])

\* terminated(.., tag("\r\n")) and map_res(.., std::str::from_utf8), given
\* the length n of the meta
meta_at(status, input, n) ==
    IF ~StartsWith(Drop(input, n), <<CR, LF>>) THEN NomErr("Tag")
    ELSE IF ~Utf8Ok(Take(input, n)) THEN NomErr("MapRes")
    ELSE Ok(Drop(input, n + 2), [status |-> status, meta |-> Take(input, n)])

\* tag(" "), then the meta
header_after_status(status, input) ==
    IF ~StartsWith(input, <<SP>>)
      THEN NomErr("Tag")
      ELSE meta_at(status, Drop(input, 1),
                   meta_len(until_cr(Drop(input, 1))))

\* A header parser that takes any two digits for a status.
header_with_status_Unchecked(status, input) ==
    header_after_status(status, input)

\* map_res(.., Status::try_from): the error of try_from is dropped for
\* nom's ErrorKind::MapRes
header_with_status(status, input) ==
    IF status = "InvalidStatusCode"
      THEN NomErr("MapRes")
      ELSE header_after_status(status, input)

parse_response_header(input) ==
    IF Len(input) < 2 \/ input[1] \notin Digits \/ input[2] \notin Digits
      THEN NomErr("TakeWhileMN")
      ELSE header_with_status(StatusOf(from_str_radix(Take(input, 2))),
                              Drop(input, 2))

\* Ok(Response { status, meta, body }), or Error::ParseError for every error
\* of the header parser: .map_err(|_| Error::ParseError)
response_of(h) ==
    IF ~h.ok
      THEN [ok |-> FALSE, err |-> "ParseError"]
      ELSE [ok |-> TRUE,
            response |-> [status |-> h.out.status, meta |-> h.out.meta,
                          body |-> h.rest]]

\* parse_response, on the bytes of its input
parse_response_input(input) == response_of(parse_response_header(input))

\* The texts a response is parsed from: every two-digit code before a meta
\* and a body, and texts that are no header.
HeaderCodes == {<<a, b>> : a \in Digits, b \in Digits}
HeaderMetas == {<<>>, <<"m">>, MetaTextGemini, <<"m", SP, "m">>}
HeaderBodies == {<<>>, <<"b">>, <<CR, LF, "b", CR, LF>>}
Header(code, meta, body) == code \o <<SP>> \o meta \o <<CR, LF>> \o body
LongMeta(n) == [i \in 1..n |-> "m"]
WellFormed ==
    {Header(c, m, b) : c \in HeaderCodes, m \in HeaderMetas, b \in HeaderBodies}
    \cup {Header(<<"2", "0">>, LongMeta(n), <<"b">>) : n \in {MaxMeta - 1, MaxMeta}}

\* Headers without the space after the digits, and headers that CR LF does not
\* end: the input ends, or a lone LF stands there.
NoSpace(code, meta, body) == code \o meta \o <<CR, LF>> \o body
Unended(code, meta, end) == code \o <<SP>> \o meta \o end
HeaderFaults ==
    {NoSpace(<<"2", "0">>, m, b) : m \in HeaderMetas, b \in HeaderBodies}
    \cup {Unended(<<"2", "0">>, m, e) : m \in HeaderMetas, e \in {<<>>, <<LF>>}}
Deviations ==
    {<<>>, <<"2">>, <<"2", "0">>, <<"2", "0", CR, LF>>,
     <<"2", "0", "0", SP, "m", CR, LF>>, <<"2", SP, "m", CR, LF>>,
     <<"x", "0", SP, "m", CR, LF>>, <<"2", "0", "m", CR, LF>>,
     <<"2", "0", TAB, "m", CR, LF>>, <<"2", "0", SP, "m", LF>>,
     <<"2", "0", SP, "m">>, <<"2", "0", SP, "m", CR, "m", CR, LF>>,
     <<"2", "0", SP, BadByte, CR, LF>>, <<SP, "2", "0", SP, "m", CR, LF>>,
     Header(<<"2", "0">>, LongMeta(MaxMeta + 1), <<"b">>),
     Header(<<"2", "0">>, LongMeta(MaxMeta + 2), <<"b">>)}
    \cup HeaderFaults
Plaintexts == WellFormed \cup Deviations

\* The text/gemini bodies: up to MaxLines lines, all ended alike by LF or by
\* CR LF, the last one ended or not.
MaxLines == 4
GemLines ==
    {<<>>, <<"a">>, <<"#", "a">>, <<"=", ">", SP, "u">>, Fence, Fence \o <<"a">>,
     <<"o", CR, "k">>}
Newlines == {<<LF>>, <<CR, LF>>}
RECURSIVE Joined(_, _)
Joined(lines, nl) ==
    IF Len(lines) = 1
      THEN lines[1]
      ELSE lines[1] \o nl \o Joined(Tail(lines), nl)
Gemtexts ==
    {<<>>}
    \cup {Joined(ls, nl) \o end :
            ls \in UNION {[1..n -> GemLines] : n \in 1..MaxLines},
            nl \in Newlines, end \in {<<>>, <<LF>>}}

\* Link lines: =>, blanks, a URL, blanks, a name, the end of the line.
Blanks == {<<>>, <<SP>>, <<TAB>>, <<SP, SP>>, <<SP, TAB>>}
LinkUrls == {<<"u">>, <<"u", "/", "v">>}
LinkNames == {<<>>, <<"n">>, <<"n", SP, "m">>, <<"n", SP>>}
LineEnds == {<<>>, <<LF>>, <<CR, LF>>}
LinkText(w1, u, w2, n, e) == <<"=", ">">> \o w1 \o u \o w2 \o n \o e
LinkTexts ==
    {LinkText(w1, u, w2, n, e) :
        w1 \in Blanks, u \in LinkUrls, w2 \in Blanks, n \in LinkNames,
        e \in LineEnds}

\* Prefixed lines: a prefix of a heading, a list item or a quote (or the lone
\* asterisk, which is none), blanks, a payload, the end of the line.
Prefixes ==
    {<<"#", "#", "#">>, <<"#", "#">>, <<"#">>, <<"*", SP>>, <<"*">>, <<">">>}
Payloads == {<<>>, <<"x">>, <<"x", SP, "y">>, <<"x", CR, "y">>}
PrefixedText(p, w, s, e) == p \o w \o s \o e
PrefixedTexts ==
    {PrefixedText(p, w, s, e) :
        p \in Prefixes, w \in Blanks, s \in Payloads, e \in LineEnds}

NoParse == [kind |-> "NoParse"]

\* Command::parse of src/src/command.rs.  White_Space is char::is_whitespace
\* on the characters of the model.
White_Space == {SP, TAB, LF, CR}

\* str::split_whitespace
RECURSIVE split_whitespace(_)
words_from(s, n) ==
    IF s = <<>> THEN <<>> ELSE <<Take(s, n)>> \o split_whitespace(Drop(s, n))
skip_blanks(s) == words_from(s, Span(s, White_Space, FALSE))
split_whitespace(s) == skip_blanks(Drop(s, Span(s, White_Space, TRUE)))

\* match url: Ok(url) gives the Load command, Err(e) "Invalid URL"
load_command(parsed) ==
    IF parsed.ok THEN Load(parsed.url) ELSE Err("Invalid URL")

\* A target that is parsed once, as it is.
reparsed_Never(t, parsed) == parsed

\* The url after `if url == Err(RelativeUrlWithoutBase)`
reparsed(t, parsed) ==
    IF ~parsed.ok /\ parsed.err = "RelativeUrlWithoutBase"
      THEN Url_parse(sGemini \o <<":", "/", "/">> \o t)
      ELSE parsed

\* The match on the first word c of the words itr
command_of(itr) ==
    IF itr = <<>>
      THEN Err("Unknown command")
    ELSE IF itr[1] = <<"q">>
      THEN Exit
    ELSE IF itr[1] = <<"g">>
      THEN IF Len(itr) >= 2
             THEN load_command(reparsed(itr[2], Url_parse(itr[2])))
             ELSE Err("Missing URL")
    ELSE Err("Unknown command")

Command_parse(cmd) == command_of(split_whitespace(cmd))

\* The command lines: q and g with and without more words, targets that are
\* absolute, relative and not a URL, words that are no command, no word.
CommandTexts ==
    {<<>>, <<SP, SP>>, <<"q">>, <<SP, "q", SP>>, <<"q", SP, "x">>, <<"q", "q">>,
     <<"x">>, <<"g">>, <<"g", SP>>, <<"g", "g">>,
     <<"g", SP, "a">>, <<"g", SP, SP, "a", "/", "b", SP, "c">>,
     <<"g", TAB>> \o sGemini \o <<":", "/", "/", "a", "/", "b", "?", "c">>,
     <<"g", SP>> \o UrlTextEmptyHost}

ParserIdle == parser_in = <<>> /\ parser_fn = "idle" /\ parser_out = NoParse

ParserInit ==
    /\ parser_in \in Plaintexts \cup Gemtexts \cup LinkTexts \cup CommandTexts
                      \cup PrefixedTexts
    /\ parser_fn = "none"
    /\ parser_out = NoParse

\* What a call of parse_text_gemini comes to: the IResult it returns, or no
\* return at all.
Returned(p) ==
    IF p.hang
      THEN [returns |-> FALSE]
      ELSE [returns |-> TRUE, ok |-> p.ok, rest |-> p.rest, doc |-> p.doc]

ParseResponseHeader ==
    /\ parser_fn = "none"
    /\ parser_in \in Plaintexts
    /\ parser_fn' = "parse_response_header"
    /\ parser_out' = parse_response_header(parser_in)
    /\ parser_in' = parser_in
    /\ UNCHANGED outsideParser

ParseResponse ==
    /\ parser_fn = "none"
    /\ parser_in \in Plaintexts
    /\ parser_fn' = "parse_response"
    /\ parser_out' = parse_response_input(parser_in)
    /\ parser_in' = parser_in
    /\ UNCHANGED outsideParser

ParseLine ==
    /\ parser_fn = "none"
    /\ (parser_in \in Gemtexts \cup LinkTexts \/ parser_in \in PrefixedTexts)
    /\ parser_fn' = "parse_line"
    /\ parser_out' = parse_line(parser_in)
    /\ parser_in' = parser_in
    /\ UNCHANGED outsideParser

ParseTextGemini ==
    /\ parser_fn = "none"
    /\ parser_in \in Gemtexts \cup LinkTexts
    /\ parser_fn' = "parse_text_gemini"
    /\ parser_out' = Returned(parse_text_gemini(parser_in))
    /\ parser_in' = parser_in
    /\ UNCHANGED outsideParser

ParseCommand ==
    /\ parser_fn = "none"
    /\ parser_in \in CommandTexts
    /\ parser_fn' = "Command::parse"
    /\ parser_out' = Command_parse(parser_in)
    /\ parser_in' = parser_in
    /\ UNCHANGED outsideParser

ParserNext ==
    \/ ParseResponseHeader
    \/ ParseResponse
    \/ ParseLine
    \/ ParseTextGemini
    \/ ParseCommand

(***************************************************************************)
(* Part 8: word wrapping (src/src/wrapped.rs).  textwrap::Wrapper is the   *)
(* wrapper of textwrap 0.11 with its defaults: no indent, break_words, a   *)
(* splitter at hyphens (the texts of the model have none).  Every          *)
(* character is one column wide.  Indexes are from 0, as in the source.    *)
(***************************************************************************)

\* &source[a..b]
Slice(source, a, b) == SubSeq(source, a + 1, b)

\* textwrap's is_whitespace, on the characters of the model
IsBlank(ch) == ch \in {SP, TAB}

\* textwrap::Wrapper: the width of a line, indents included, and what the
\* first line and the later lines start with
Wrapper_new(width) ==
    [width |-> width, initial_indent |-> <<>>, subsequent_indent |-> <<>>]
Wrapper_indent(w, initial, subsequent) ==
    [w EXCEPT !.initial_indent = initial, !.subsequent_indent = subsequent]

\* WrapIterImpl::new
WrapIterStart(w) ==
    [start |-> 0, split |-> 0, split_len |-> 0,
     line_width |-> Len(w.initial_indent),
     line_width_at_split |-> Len(w.initial_indent), in_whitespace |-> FALSE]

\* remaining_text up to its first whitespace: the length of final_word
final_word_len(source, from) == Span(Drop(source, from), {SP, TAB}, FALSE)

\* A whitespace character at idx: extend the previous split or start one.
at_whitespace(it, idx) ==
    [it EXCEPT !.split = IF it.in_whitespace THEN it.split ELSE idx,
               !.split_len = IF it.in_whitespace THEN it.split_len + 1 ELSE 1,
               !.line_width_at_split = it.line_width + 1,
               !.in_whitespace = TRUE,
               !.line_width = it.line_width + 1]

\* No room for the character at idx: the split moves past final_word when
\* that fits on the line (n is its length).
try_final_word(it, n, width) ==
    IF it.line_width_at_split + n <= width
      THEN [it EXCEPT !.split = it.split + it.split_len + n, !.split_len = 0,
                      !.in_whitespace = FALSE]
      ELSE [it EXCEPT !.in_whitespace = FALSE]

\* The word is too big for a line: break it at idx (break_words).
break_word(it, idx) ==
    IF it.start >= it.split
      THEN [it EXCEPT !.split = idx, !.split_len = 0,
                      !.line_width_at_split = it.line_width]
      ELSE it

\* create_result_line, and the text of the line added to it
result_line(w, it, text) ==
    (IF it.start = 0 THEN w.initial_indent ELSE w.subsequent_indent) \o text

\* An iterator that starts the next line at the blanks it split at.
after_line_BlanksKept(w, it) ==
    [it EXCEPT !.start = it.split,
               !.line_width = it.line_width + Len(w.subsequent_indent)
                                  - it.line_width_at_split + 1]

\* The iterator after the line source[start..split] was returned.
after_line(w, it) ==
    [it EXCEPT !.start = it.split + it.split_len,
               !.line_width = it.line_width + Len(w.subsequent_indent)
                                  - it.line_width_at_split + 1]

\* WrapIterImpl::next, run to the end of source from the character at idx:
\* the lines returned, after those of out.
RECURSIVE wrap_iter(_, _, _, _, _)
overfull(source, w, idx, it, out) ==
    IF it.start < it.split
      THEN wrap_iter(source, w, idx + 1, after_line(w, it),
                     Append(out, result_line(w, it, Slice(source, it.start, it.split))))
      ELSE wrap_iter(source, w, idx + 1,
                     [it EXCEPT !.line_width = it.line_width + 1], out)

wrap_iter(source, w, idx, it, out) ==
    IF idx = Len(source)
      THEN IF it.start < Len(source)
             THEN Append(out, result_line(w, it, Slice(source, it.start, Len(source))))
             ELSE out
    ELSE IF IsBlank(source[idx + 1])
      THEN wrap_iter(source, w, idx + 1, at_whitespace(it, idx), out)
    ELSE IF it.line_width + 1 > w.width
      THEN overfull(source, w, idx,
                    break_word(try_final_word(it,
                                   final_word_len(source, it.split + it.split_len),
                                   w.width), idx),
                    out)
    ELSE wrap_iter(source, w, idx + 1,
                   [it EXCEPT !.in_whitespace = FALSE,
                              !.line_width = it.line_width + 1], out)

\* Wrapper::wrap(s)
Wrapper_wrap(w, s) == wrap_iter(s, w, 0, WrapIterStart(w), <<>>)

\* (Line, bool): a screen line and whether it is the first of its block
Screen(line, first) == [line |-> line, first |-> first]

\* The closure f of wrap: the line of the block, with s for its payload
with_payload(line, s) ==
    IF line.tag = "NamedLink" THEN NamedLink(line.url, s)
    ELSE IF line.tag = "Pre" THEN Pre(line.alt, s)
    ELSE MkLine(line.tag, s)

\* A zip that flags every screen line as the first of its block.
zip_first_AllFirst(line, pieces) ==
    [i \in 1..Len(pieces) |-> Screen(with_payload(line, pieces[i]), TRUE)]

\* .map(f).zip(once(true).chain(repeat(false)))
zip_first(line, pieces) ==
    [i \in 1..Len(pieces) |-> Screen(with_payload(line, pieces[i]), i = 1)]

\* if t.peek().is_some() { t } else { once((default, true)) }
peeked(line, t) ==
    IF t # <<>> THEN t ELSE <<Screen(with_payload(line, <<>>), TRUE)>>

wrap(line, s, width) ==
    peeked(line, zip_first(line, Wrapper_wrap(Wrapper_new(width), s)))

\* str::split('\n')
RECURSIVE split_lf(_)
\* A split that yields the text as it is, line feeds and all.
split_rest_Unsplit(s, n) == <<s>>

split_rest(s, n) ==
    IF n = Len(s) THEN <<s>> ELSE <<Take(s, n)>> \o split_lf(Drop(s, n + 1))
split_lf(s) == split_rest(s, Span(s, {LF}, FALSE))

line_wrap(line, width) ==
    CASE line.tag = "Text" -> wrap(line, line.s, width)
      [] line.tag = "BareLink" -> <<Screen(line, TRUE)>>
      [] line.tag = "NamedLink" -> wrap(line, line.name, width - 3)
      [] line.tag = "Pre" -> zip_first(line, split_lf(line.text))
      [] line.tag = "H1" -> wrap(line, line.s, width - 2)
      [] line.tag = "H2" -> wrap(line, line.s, width - 3)
      [] line.tag = "H3" -> wrap(line, line.s, width - 4)
      [] line.tag = "List" -> wrap(line, line.s, width - 2)
      [] line.tag = "Quote" -> wrap(line, line.s, width - 2)

\* d.0.iter().map(|line| line_wrap(line, width)).flatten().collect()
RECURSIVE word_wrap(_, _)
word_wrap(d, width) ==
    IF d = <<>>
      THEN <<>>
      ELSE line_wrap(Head(d), width) \o word_wrap(Tail(d), width)

\* d.0.iter().map(|line| (*line, true)).collect()
dummy_wrap(d) == [i \in 1..Len(d) |-> Screen(d[i], TRUE)]

\* The wrapper of the viewport (src/src/document.rs): every line of the
\* document becomes one block, a line whose payload is the vector of its
\* screen rows.  Its lines are those of src/src/protocol.rs: a Link with an
\* optional name, a Pre whose text is a vector of rows.
Link(u, n) == [tag |-> "Link", url |-> u, name |-> n]

\* U+2022, one column wide
BULLET == "*"

\* Document::line_wrap: the rows t
wrapped_rows(line, wrapper) ==
    CASE line.tag = "Text" -> Wrapper_wrap(wrapper, line.s)
      [] line.tag = "Link" ->
            IF IsSome(line.name)
              THEN Wrapper_wrap(Wrapper_indent(wrapper, <<"=", ">", SP>>, <<SP, SP, SP>>),
                                Unwrap(line.name))
              ELSE <<>>
      [] line.tag = "Pre" -> line.text
      [] line.tag = "H1" ->
            Wrapper_wrap(Wrapper_indent(wrapper, <<"#", SP>>, <<"#", SP>>), line.s)
      [] line.tag = "H2" ->
            Wrapper_wrap(Wrapper_indent(wrapper, <<"#", "#", SP>>, <<SP, SP, SP>>), line.s)
      [] line.tag = "H3" ->
            Wrapper_wrap(Wrapper_indent(wrapper, <<"#", "#", "#", SP>>,
                                        <<SP, SP, SP, SP>>), line.s)
      [] line.tag = "List" ->
            Wrapper_wrap(Wrapper_indent(wrapper, <<BULLET, SP>>, <<SP, SP>>), line.s)
      [] line.tag = "Quote" ->
            Wrapper_wrap(Wrapper_indent(wrapper, <<">", SP>>, <<">", SP>>), line.s)

\* Document::line_wrap: the block, the line with t for its payload
block_of(line, t) ==
    CASE line.tag = "Link" ->
            Link(line.url, IF IsSome(line.name) THEN Some(t) ELSE None)
      [] line.tag = "Pre" -> Pre(line.alt, t)
      [] OTHER -> MkLine(line.tag, t)

Document_line_wrap(line, width) ==
    block_of(line, wrapped_rows(line, Wrapper_new(width)))

\* Document::word_wrap
Document_word_wrap(d, width) ==
    [i \in 1..Len(d) |-> Document_line_wrap(d[i], width)]

\* Line_::len, the number of screen rows of a block
Line__len(block) ==
    CASE block.tag = "Link" ->
            IF IsSome(block.name) THEN Len(Unwrap(block.name)) ELSE 1
      [] block.tag = "Pre" -> Len(block.text)
      [] OTHER -> Len(block.s)

\* The payloads wrapped: none, one word, two words, a word longer than any
\* line, a word with blanks after it, three words.
PayloadWord == <<"a">>
PayloadWords == <<"a", "a", "a", SP, "a", "a">>
PayloadLong == <<"a", "a", "a", "a", "a", "a", "a", "a", "a">>
PayloadTrailing == <<"a", "a", "a", SP, SP>>
PayloadAlpha ==
    <<"a", "l", "p", "h", "a", SP, "b", "e", "t", "a", SP, "g", "a", "m", "m", "a">>

WrapLines ==
    {Text(t) : t \in {<<>>, PayloadWord, PayloadWords, PayloadLong, PayloadTrailing}}
    \cup {NamedLink(<<"u">>, t) : t \in {<<>>, PayloadWords}}
    \cup {BareLink(<<"u">>), Pre(None, <<>>), Pre(Some(<<"a">>), <<"a", LF, LF, "b">>)}
    \cup {H1(t) : t \in {PayloadWord, PayloadWords}}
    \cup {H2(PayloadWords)}
    \cup {H3(t) : t \in {<<>>, PayloadWord, PayloadWords}}
    \cup {List(t) : t \in {<<>>, PayloadWords, PayloadAlpha}}
    \cup {Quote(t) : t \in {PayloadWords, PayloadLong}}

\* The lines of the viewport's documents.
DocumentLines ==
    {Text(t) : t \in {<<>>, PayloadWord, PayloadWords, PayloadLong}}
    \cup {Link(<<"u">>, n) : n \in {None, Some(PayloadWords)}}
    \cup {Pre(None, <<>>), Pre(Some(<<"a">>), <<<<"a">>, <<>>, <<"b">>>>)}
    \cup {H1(PayloadWords), H3(PayloadWord), List(PayloadAlpha), Quote(PayloadWords)}

\* Documents of up to MaxBlocks lines, widths from the least the wrapper
\* takes (4, the prefix of H3) to MaxWidth.
MaxBlocks == 2
MaxWidth == 8
MinWidth == 4
WrapDocuments == UNION {[1..n -> WrapLines] : n \in 0..MaxBlocks}
Widths == MinWidth..MaxWidth

Documents == UNION {[1..n -> DocumentLines] : n \in 0..MaxBlocks}

NoWrap == [kind |-> "NoWrap"]

WrapIdle ==
    wrap_source = <<>> /\ wrap_width = 0 /\ wrap_fn = "idle" /\ wrap_out = NoWrap

WrapInit ==
    /\ wrap_source \in WrapDocuments
    /\ wrap_width \in Widths
    /\ wrap_fn = "none"
    /\ wrap_out = NoWrap

\* A document of the viewport, to be wrapped by Document::word_wrap.
DocumentInit ==
    /\ wrap_source \in Documents
    /\ wrap_width \in Widths
    /\ wrap_fn = "Document::none"
    /\ wrap_out = NoWrap

WordWrap ==
    /\ wrap_fn = "none"
    /\ wrap_fn' = "word_wrap"
    /\ wrap_out' = word_wrap(wrap_source, wrap_width)
    /\ UNCHANGED <<wrap_source, wrap_width>>
    /\ UNCHANGED outsideWrap

DummyWrap ==
    /\ wrap_fn = "none"
    /\ wrap_fn' = "dummy_wrap"
    /\ wrap_out' = dummy_wrap(wrap_source)
    /\ UNCHANGED <<wrap_source, wrap_width>>
    /\ UNCHANGED outsideWrap

DocumentWordWrap ==
    /\ wrap_fn = "Document::none"
    /\ wrap_fn' = "Document::word_wrap"
    /\ wrap_out' = Document_word_wrap(wrap_source, wrap_width)
    /\ UNCHANGED <<wrap_source, wrap_width>>
    /\ UNCHANGED outsideWrap

WrapNext ==
    \/ WordWrap
    \/ DummyWrap
    \/ DocumentWordWrap

(***************************************************************************)
(* Part 9: the viewport (src/src/view.rs).  display puts the terminal in    *)
(* raw mode, makes a WrappedView of the document, draws it and then handles *)
(* one event in each turn of its loop.  A position is <<block, line>>,      *)
(* both from 0.  Of what is drawn the model keeps, for every screen row,    *)
(* the line it shows and whether it has the black background over its       *)
(* whole width, and whether drawing panics or fails.  display starts on a   *)
(* terminal of at least 8 columns and 3 rows; a Resize event may report a   *)
(* terminal smaller than the padding or the status rows.                    *)
(***************************************************************************)

MaxViewBlocks == 2
MaxRows == 4
Padding == 4
StatusRows == 2

NoView == [kind |-> "NoView"]
NoViewEvent == [type |-> "NoViewEvent"]

\* crossterm's events
Key(code, modifiers) == [type |-> "Key", code |-> code, modifiers |-> modifiers]
Mouse(kind) == [type |-> "Mouse", kind |-> kind]
Resize(w, h) == [type |-> "Resize", w |-> w, h |-> h]

\* offsets[b]: the rows of the blocks before block b
RECURSIVE rows_before(_, _)
rows_before(doc, b) ==
    IF b = 0 THEN 0 ELSE rows_before(doc, b - 1) + Line__len(doc[b])

\* a - b in u16, in a build without overflow checks
U16 == 65536
wrapping_sub(a, b) == (a - b) % U16

\* size.0 - 4 or size.1 - 2 is less than zero: a panic in a build with
\* overflow checks, a value wrapped around in one without
new_overflows(size) == size[1] < Padding \/ size[2] < StatusRows

WrappedView_new(source, size, yscroll, ycursor) ==
    [size |-> <<wrapping_sub(size[1], Padding), wrapping_sub(size[2], StatusRows)>>,
     yscroll |-> <<yscroll, 0>>,
     ycursor |-> <<ycursor, 0>>,
     doc |-> Document_word_wrap(source, wrapping_sub(size[1], Padding)),
     needs_redraw |-> TRUE]

\* self.doc.0[b]
block_at(v, b) == v.doc[b + 1]

Min(a, b) == IF a <= b THEN a ELSE b

\* A Link without a name: the BareLink of draw_line
IsBareLink(block) == block.tag = "Link" /\ ~IsSome(block.name)

\* draw_line: one of its assertions fails
draw_line_panics(v, index) ==
    IF IsBareLink(block_at(v, index[1]))
      THEN index[2] # 0
      ELSE ~(index[2] < Line__len(block_at(v, index[1])))

\* draw_line, draw_block: the number of rows drawn from screen row sy
draw_line_rows(v, index, sy) ==
    IF IsBareLink(block_at(v, index[1]))
      THEN Min(v.size[2] - sy, 1)
      ELSE Min(v.size[2] - sy, Line__len(block_at(v, index[1])) - index[2])

\* draw: the loop over the blocks after block b, from screen row y
RECURSIVE draw_more_panics(_, _, _)
draw_more_panics(v, b, y) ==
    IF y < v.size[2] /\ b + 1 < Len(v.doc)
      THEN \/ draw_line_panics(v, <<b + 1, 0>>)
           \/ draw_more_panics(v, b + 1, y + draw_line_rows(v, <<b + 1, 0>>, y))
      ELSE FALSE

\* draw panics: the document has no block at yscroll, or an assertion of
\* draw_line fails
draw_panics(v) ==
    \/ ~(v.yscroll[1] < Len(v.doc))
    \/ draw_line_panics(v, v.yscroll)
    \/ draw_more_panics(v, v.yscroll[1], draw_line_rows(v, v.yscroll, 0))

\* a.saturating_sub(b)
saturating_sub(a, b) == IF a >= b THEN a - b ELSE 0

\* draw_block's `active_block && i == active_line` for row i of the rows that
\* draw_line draws from index, with the arguments draw_line passes: the fill
\* of size.0 + 1 black cells and the text on black
active_row(v, index, i) ==
    IF IsBareLink(block_at(v, index[1]))
      THEN v.ycursor[1] = 0 /\ i = 0
      ELSE /\ index[1] = v.ycursor[1]
           /\ i = saturating_sub(v.ycursor[2], index[2])

\* draw_line, draw_block: the screen rows drawn from index, each with the
\* position of the line it shows and whether it is drawn on black
draw_line(v, index, sy) ==
    [i \in 1..draw_line_rows(v, index, sy) |->
        [index |-> <<index[1], index[2] + i - 1>>,
         black |-> active_row(v, index, i - 1)]]

\* draw: the rows of the blocks after block b, from screen row y
RECURSIVE draw_more(_, _, _)
draw_more(v, b, y) ==
    IF y < v.size[2] /\ b + 1 < Len(v.doc)
      THEN draw_line(v, <<b + 1, 0>>, y)
             \o draw_more(v, b + 1, y + draw_line_rows(v, <<b + 1, 0>>, y))
      ELSE <<>>

\* draw, when it does not panic: the rows of the screen from the top
draw(v) ==
    draw_line(v, v.yscroll, 0)
      \o draw_more(v, v.yscroll[1], draw_line_rows(v, v.yscroll, 0))

\* len() - 1 in usize; usize::MAX, which no index of the model equals, is
\* written -1
len_less_one(block) == Line__len(block) - 1

increment_index(v, index) ==
    IF index[2] = len_less_one(block_at(v, index[1]))
      THEN IF index[1] = Len(v.doc) - 1 THEN index ELSE <<index[1] + 1, 0>>
      ELSE <<index[1], index[2] + 1>>

decrement_index(v, index) ==
    IF index[2] = 0
      THEN IF index[1] = 0
             THEN index
             ELSE <<index[1] - 1, len_less_one(block_at(v, index[1] - 1))>>
      ELSE <<index[1], index[2] - 1>>

cursor_line(v) == rows_before(v.doc, v.ycursor[1]) + v.ycursor[2]
scroll_line(v) == rows_before(v.doc, v.yscroll[1]) + v.yscroll[2]

\* self.needs_redraw = prev != (self.ycursor, self.yscroll)
redraw_after(prev, v) ==
    [v EXCEPT !.needs_redraw =
                  <<prev.ycursor, prev.yscroll>> # <<v.ycursor, v.yscroll>>]

scroll_down(v) ==
    IF cursor_line(v) >= scroll_line(v) + v.size[2]
      THEN [v EXCEPT !.yscroll = increment_index(v, v.yscroll)]
      ELSE v

down(v) ==
    redraw_after(v, scroll_down([v EXCEPT !.ycursor = increment_index(v, v.ycursor)]))

scroll_up(v) ==
    IF cursor_line(v) < scroll_line(v)
      THEN [v EXCEPT !.yscroll = decrement_index(v, v.yscroll)]
      ELSE v

up(v) ==
    redraw_after(v, scroll_up([v EXCEPT !.ycursor = decrement_index(v, v.ycursor)]))

\* down or up index a document without blocks
index_out_of_bounds(v) == v.doc = <<>>

\* len() - 1 is computed for a block without rows: a panic in a build with
\* overflow checks, usize::MAX in one without
down_overflows(v) ==
    \/ Line__len(block_at(v, v.ycursor[1])) = 0
    \/ Line__len(block_at(v, v.yscroll[1])) = 0
up_overflows(v) ==
    \/ v.ycursor[2] = 0 /\ v.ycursor[1] > 0
          /\ Line__len(block_at(v, v.ycursor[1] - 1)) = 0
    \/ v.yscroll[2] = 0 /\ v.yscroll[1] > 0
          /\ Line__len(block_at(v, v.yscroll[1] - 1)) = 0

\* What View::event returns: Ok(ok), and the view it leaves
Handled(ok, v) == [ok |-> ok, view |-> v]

\* A 'c' that quits with any modifiers.
key_event_AnyC(k, v) ==
    CASE k.code \in {"q", "c"} -> Handled(FALSE, v)
      [] k.code = "j" -> Handled(TRUE, down(v))
      [] k.code = "k" -> Handled(TRUE, up(v))
      [] OTHER -> Handled(TRUE, v)

key_event(k, v) ==
    CASE k.code = "q" -> Handled(FALSE, v)
      [] k.code = "j" -> Handled(TRUE, down(v))
      [] k.code = "k" -> Handled(TRUE, up(v))
      [] k.code = "c" -> Handled(k.modifiers # "CONTROL", v)
      [] OTHER -> Handled(TRUE, v)

mouse_event(m, v) ==
    CASE m.kind = "ScrollUp" -> Handled(TRUE, up(v))
      [] m.kind = "ScrollDown" -> Handled(TRUE, down(v))
      [] OTHER -> Handled(TRUE, v)

View_event(e, v, source) ==
    CASE e.type = "Key" -> key_event(e, v)
      [] e.type = "Mouse" -> mouse_event(e, v)
      [] e.type = "Resize" ->
            Handled(TRUE, WrappedView_new(source, <<e.w, e.h>>,
                                          v.yscroll[1], v.ycursor[1]))

\* The event calls down, the event calls up.
CallsDown(e) ==
    \/ e.type = "Key" /\ e.code = "j"
    \/ e.type = "Mouse" /\ e.kind = "ScrollDown"
CallsUp(e) ==
    \/ e.type = "Key" /\ e.code = "k"
    \/ e.type = "Mouse" /\ e.kind = "ScrollUp"

\* App::key: Some(Ok(Command::Exit)) for Ctrl-C, None for the other keys of
\* the model (':' , which starts the command line, is not one of them)
App_key(k) ==
    IF k.code = "c" /\ k.modifiers = "CONTROL" THEN Some(Exit) ELSE None

\* The documents displayed, the sizes of the terminal and the events read.
ViewLines ==
    {Text(t) : t \in {<<>>, PayloadLong}}
    \cup {Link(<<"u">>, n) : n \in {None, Some(PayloadWords)}}
ViewDocuments == UNION {[1..n -> ViewLines] : n \in 0..MaxViewBlocks}
TermSizes ==
    {<<w, h>> : w \in {MinWidth + Padding, MaxWidth + Padding},
                h \in (StatusRows + 1)..MaxRows}
Keys ==
    {Key(c, "NONE") : c \in {"q", "j", "k", "c", "x", "Enter"}}
    \cup {Key("c", "CONTROL"), Key("j", "CONTROL")}
Mice == {Mouse(kind) : kind \in {"ScrollUp", "ScrollDown", "Down"}}

\* The sizes a Resize event reports: those above, and a terminal too narrow
\* for the padding and too low for the status rows.
ResizeSizes == TermSizes \cup {<<Padding - 1, StatusRows - 1>>}

ViewIdle ==
    /\ view_pc = "idle"
    /\ view_source = <<>>
    /\ view = NoView
    /\ view_evt = NoViewEvent
    /\ event_ret = "none"
    /\ display_ret = "none"
    /\ raw_mode = FALSE
    /\ mouse_capture = FALSE
    /\ cursor_hidden = FALSE

DisplayInit ==
    /\ view_pc = "entry"
    /\ view_source \in ViewDocuments
    /\ view = NoView
    /\ view_evt = NoViewEvent
    /\ event_ret = "none"
    /\ display_ret = "none"
    /\ raw_mode = FALSE
    /\ mouse_capture = FALSE
    /\ cursor_hidden = FALSE

\* A `?` of display returns the error.
ReturnErr ==
    /\ view_pc' = "returned"
    /\ display_ret' = "Err"

\* display up to its loop; step is the call that fails, if one does
DisplayStart(size, step) ==
    /\ view_pc = "entry"
    /\ raw_mode' = (step # "enable_raw_mode")
    /\ cursor_hidden' \in IF step = "enable_raw_mode" THEN {FALSE}
                          ELSE IF step = "execute" THEN BOOLEAN
                          ELSE {TRUE}
    /\ mouse_capture' = (step \notin {"enable_raw_mode", "execute"})
    /\ IF step \in {"enable_raw_mode", "execute", "size"}
         THEN ReturnErr /\ view' = view
         ELSE /\ view' = WrappedView_new(view_source, size, 0, 0)
              /\ IF draw_panics(view')
                   THEN view_pc' = "panicked" /\ display_ret' = display_ret
                   ELSE IF step = "draw"
                          THEN ReturnErr
                          ELSE view_pc' = "loop" /\ display_ret' = display_ret
    /\ UNCHANGED <<view_source, view_evt, event_ret>>
    /\ UNCHANGED outsideView

\* The rest of a turn of the loop after View::event returned res; stdout
\* tells whether writing to the terminal works.
AfterEvent(res, stdout) ==
    /\ event_ret' = IF res.ok THEN "Ok(true)" ELSE "Ok(false)"
    /\ IF ~res.ok
         THEN view' = res.view /\ view_pc' = "break" /\ display_ret' = display_ret
         ELSE IF ~res.view.needs_redraw
           THEN view' = res.view /\ view_pc' = "loop" /\ display_ret' = display_ret
         ELSE IF draw_panics(res.view)
           THEN view' = res.view /\ view_pc' = "panicked"
                /\ display_ret' = display_ret
         ELSE IF ~stdout
           THEN view' = res.view /\ ReturnErr
         ELSE /\ view' = [res.view EXCEPT !.needs_redraw = FALSE]
              /\ view_pc' = "loop"
              /\ display_ret' = display_ret

\* The event panics in down, in up or in WrappedView::new.
EventPanics ==
    /\ view_pc' = "panicked"
    /\ event_ret' = "panic"
    /\ UNCHANGED <<view, display_ret>>

\* One turn of the loop with the event e.
Turn(e, stdout) ==
    /\ view_evt' = e
    /\ IF (CallsDown(e) \/ CallsUp(e)) /\ index_out_of_bounds(view)
         THEN EventPanics
         ELSE IF \/ CallsDown(e) /\ down_overflows(view)
                 \/ CallsUp(e) /\ up_overflows(view)
                 \/ e.type = "Resize" /\ new_overflows(<<e.w, e.h>>)
           THEN \/ EventPanics
                \/ AfterEvent(View_event(e, view, view_source), stdout)
           ELSE AfterEvent(View_event(e, view, view_source), stdout)
    /\ UNCHANGED <<view_source, raw_mode, mouse_capture, cursor_hidden>>
    /\ UNCHANGED outsideView

\* read()? fails: no event is read
ReadFails ==
    /\ view_pc = "loop"
    /\ ReturnErr
    /\ view_evt' = NoViewEvent
    /\ event_ret' = "none"
    /\ UNCHANGED <<view_source, view, raw_mode, mouse_capture, cursor_hidden>>
    /\ UNCHANGED outsideView

ViewKey ==
    /\ view_pc = "loop"
    /\ \E k \in Keys, stdout \in BOOLEAN : Turn(k, stdout)

ViewMouse ==
    /\ view_pc = "loop"
    /\ \E m \in Mice, stdout \in BOOLEAN : Turn(m, stdout)

ViewResize ==
    /\ view_pc = "loop"
    /\ \E size \in ResizeSizes, stdout \in BOOLEAN :
          Turn(Resize(size[1], size[2]), stdout)

\* display after its loop; step is the call that fails, if one does
DisplayRestore(step) ==
    /\ view_pc = "break"
    /\ view_pc' = "returned"
    /\ display_ret' = IF step = "none" THEN "Ok" ELSE "Err"
    /\ cursor_hidden' \in IF step = "execute" THEN {cursor_hidden, FALSE} ELSE {FALSE}
    /\ mouse_capture' = (step = "execute")
    /\ raw_mode' = (step # "none")
    /\ UNCHANGED <<view_source, view, view_evt, event_ret>>
    /\ UNCHANGED outsideView

ViewNext ==
    \/ \E size \in TermSizes,
          step \in {"none", "enable_raw_mode", "execute", "size", "draw"} :
          DisplayStart(size, step)
    \/ ViewKey
    \/ ViewMouse
    \/ ViewResize
    \/ ReadFails
    \/ \E step \in {"none", "execute", "disable_raw_mode"} : DisplayRestore(step)

\* The steps of display when no Resize event is read.
ScrollNext ==
    \/ \E size \in TermSizes,
          step \in {"none", "enable_raw_mode", "execute", "size", "draw"} :
          DisplayStart(size, step)
    \/ ViewKey
    \/ ViewMouse
    \/ ReadFails
    \/ \E step \in {"none", "execute", "disable_raw_mode"} : DisplayRestore(step)

(***************************************************************************)
(* Part 10: the command line of the application (src/src/app.rs).          *)
(* display_doc reads one event in each turn of its loop, gives it to       *)
(* App::event and, when that returns None, to the view; an error shows on  *)
(* the command line, a command ends the loop.  The App is the record of    *)
(* has_cmd_error and size, with pane for what the command line shows:      *)
(* "blank", "prompt" (the colon and what was typed) or "error".  Of        *)
(* Input::run the model keeps what it returns.                             *)
(***************************************************************************)

NoApp == [kind |-> "NoApp"]

\* App::new
App_new(size) == [has_cmd_error |-> FALSE, size |-> size, pane |-> "blank"]

set_cmd_error(a) == [a EXCEPT !.pane = "error", !.has_cmd_error = TRUE]

clear_cmd(a) == [a EXCEPT !.pane = "blank", !.has_cmd_error = FALSE]

\* What App::key and App::event return: the Option, and the App they leave
Answered(o, a) == [ret |-> o, app |-> a]

\* if self.has_cmd_error { self.clear_cmd(); }
cleared_on_key(a) == IF a.has_cmd_error THEN clear_cmd(a) ELSE a

\* KeyCode::Char(':'): the prompt, Input::run (which returned inp), and the
\* command parsed from what it returned
colon_key(inp, a) ==
    IF IsSome(inp)
      THEN Answered(Some(Command_parse(Unwrap(inp))), [a EXCEPT !.pane = "prompt"])
      ELSE Answered(None, clear_cmd(a))

\* App::key
key_after(k, inp, a) ==
    IF k.code = "c" /\ k.modifiers = "CONTROL"
      THEN Answered(Some(Exit), a)
    ELSE IF k.code = ":"
      THEN colon_key(inp, cleared_on_key(a))
    ELSE Answered(None, cleared_on_key(a))

\* App::event
App_event(e, inp, a) ==
    CASE e.type = "Key" -> key_after(e, inp, a)
      [] e.type = "Resize" -> Answered(None, [a EXCEPT !.size = <<e.w, e.h>>])
      [] OTHER -> Answered(None, a)

\* v.event(evt), of the view that display_doc makes: Exit for q, TryLoad for
\* Enter when the cursor is on a link, no command for any other event, and
\* never an error.
view_answers(e) ==
    IF e.type = "Key" /\ e.code = "q" THEN {Some(Exit)}
    ELSE IF e.type = "Key" /\ e.code = "Enter" THEN {None, Some(TryLoad(<<"u">>))}
    ELSE {None}

\* self.event(evt).or_else(|| v.event(evt))
or_else(o, other) == IF IsSome(o) THEN o ELSE other

\* The events display_doc reads, and what Input::run returns for the colon.
DocKeys ==
    {Key(c, "NONE") : c \in {":", "q", "j", "c", "Enter"}}
    \cup {Key("c", "CONTROL")}
DocEvents ==
    DocKeys \cup {Mouse("ScrollDown")}
    \cup {Resize(size[1], size[2]) : size \in TermSizes}
DocInputs == {None} \cup {Some(c) : c \in CommandTexts}

DocIdle ==
    /\ dpc = "idle"
    /\ app = NoApp
    /\ doc_evt = NoViewEvent
    /\ doc_input = None
    /\ doc_ret = Nil

\* display_doc is entered with the flag down: App::new makes it so, and a
\* command that ends an earlier display_doc and is not Ctrl-C's Exit, after
\* which run ends, comes from a key that lowered it.
DocInit ==
    /\ dpc = "loop"
    /\ app \in {App_new(size) : size \in TermSizes}
    /\ doc_evt = NoViewEvent
    /\ doc_input = None
    /\ doc_ret = Nil

\* match r { Err(err) => self.set_cmd_error(..), Ok(r) => break r }
AfterAnswer(res, a) ==
    IF ~IsSome(res)
      THEN app' = a /\ dpc' = "loop" /\ doc_ret' = doc_ret
    ELSE IF Unwrap(res).kind = "Err"
      THEN app' = set_cmd_error(a) /\ dpc' = "loop" /\ doc_ret' = doc_ret
    ELSE app' = a /\ dpc' = "returned" /\ doc_ret' = Unwrap(res)

\* One turn of the loop of display_doc
DisplayDocTurn ==
    /\ dpc = "loop"
    /\ \E e \in DocEvents, inp \in DocInputs :
          /\ (e.type = "Key" /\ e.code = ":") \/ inp = None
          /\ doc_evt' = e
          /\ doc_input' = inp
          /\ \E ans \in view_answers(e) :
                AfterAnswer(or_else(App_event(e, inp, app).ret, ans),
                            App_event(e, inp, app).app)
    /\ UNCHANGED outsideDoc

DocNext == DisplayDocTurn

(***************************************************************************)
(* The specifications.                                                     *)
(***************************************************************************)

vars == <<tofuVars, fetchVars, runVars, parserVars, wrapVars, viewVars, docVars>>

\* The verifier is called while no fetch is in progress.
InitTofu ==
    /\ TofuInit /\ FetchIdle /\ RunIdle /\ ParserIdle /\ WrapIdle
    /\ ViewIdle /\ DocIdle

SpecTofu == InitTofu /\ [][TofuNext]_vars

\* The verifier called once by each thread, with its scheduling: a thread
\* inside a call takes its next step when it can, which for a thread waiting
\* for the lock is when the lock stays free.
TofuFairness ==
    \A t \in Threads :
        /\ WF_vars(AcquireRead(t))
        /\ WF_vars(Get(t))
        /\ WF_vars(Decide(t))
        /\ WF_vars(AcquireWrite(t))
        /\ WF_vars(Insert(t))

SpecTofuLive == InitTofu /\ [][TofuNextOneCall]_vars /\ TofuFairness

\* One call of fetch, the verifier's store as it starts.
InitFetch ==
    /\ FetchInit /\ TofuInit /\ RunIdle /\ ParserIdle /\ WrapIdle
    /\ ViewIdle /\ DocIdle

SpecFetch == InitFetch /\ [][FetchNext]_vars

\* The loop of the application, no call of the other subsystems in progress.
InitRun ==
    /\ RunInit /\ TofuInit /\ FetchIdle /\ ParserIdle /\ WrapIdle
    /\ ViewIdle /\ DocIdle

SpecRun == InitRun /\ [][RunNext]_vars

\* One call of one parser.
InitParser ==
    /\ ParserInit /\ TofuInit /\ FetchIdle /\ RunIdle /\ WrapIdle
    /\ ViewIdle /\ DocIdle

SpecParser == InitParser /\ [][ParserNext]_vars

\* One call of word_wrap, of dummy_wrap or of Document::word_wrap.
WrapStart == WrapInit \/ DocumentInit

InitWrap ==
    /\ WrapStart /\ TofuInit /\ FetchIdle /\ RunIdle /\ ParserIdle
    /\ ViewIdle /\ DocIdle

SpecWrap == InitWrap /\ [][WrapNext]_vars

\* One call of View::display.
InitView ==
    /\ DisplayInit
    /\ TofuInit /\ FetchIdle /\ RunIdle /\ ParserIdle /\ WrapIdle /\ DocIdle

SpecView == InitView /\ [][ViewNext]_vars

\* One call of View::display on a terminal that is not resized.
SpecScroll == InitView /\ [][ScrollNext]_vars

\* One call of App::display_doc.
InitDoc ==
    /\ DocInit
    /\ TofuInit /\ FetchIdle /\ RunIdle /\ ParserIdle /\ WrapIdle /\ ViewIdle

SpecDoc == InitDoc /\ [][DocNext]_vars

(***************************************************************************)
(* Claims about the TOFU store.                                            *)
(***************************************************************************)

\* Thread t's call returns in this step.
Returns(t) == tpc[t] # "done" /\ tpc'[t] = "done"

\* The lookup of t's call found a record.
FoundRecord(t) == r[t] \notin {Nil, NoRecord}

\* C1: for a host with a recorded certificate (the lookup found one),
\* verify_server_cert returns OK when the presented leaf equals the record and
\* CertNotValidForName when it differs; the call that fails writes nothing: the
\* step in which it returns leaves every host's record as it was, and a call
\* that found a record never asks for the write lock.
C1_RecordedHostVerdict ==
    /\ [](\A t \in Threads :
            /\ (tpc[t] = "done" /\ FoundRecord(t)) =>
                  ret[t] = IF r[t] = presented_certs[t][1]
                             THEN "OK" ELSE "CertNotValidForName"
            /\ tpc[t] \in {"wrlock", "insert"} => r[t] = NoRecord)
    /\ [][\A t \in Threads :
            (Returns(t) /\ ret'[t] = "CertNotValidForName") => db' = db]_vars

\* A call returns CertNotValidForName for a host whose record differs from the
\* presented leaf and is still in the store, while another call for a recorded
\* host has returned OK.
C1_Witness ==
    \E t, u \in Threads :
        /\ tpc[t] = "done" /\ ret[t] = "CertNotValidForName"
        /\ FoundRecord(t) /\ db[dns_name[t]] = r[t]
        /\ r[t] # presented_certs[t][1]
        /\ tpc[u] = "done" /\ ret[u] = "OK" /\ FoundRecord(u)

\* C2: under any interleaving of concurrent calls, once a host has a record
\* its value never changes.
C2_RecordNeverChanges ==
    [][\A h \in Hosts : db[h] # NoRecord => db'[h] = db[h]]_vars

RedirectAnswer == fpc = "dispatch" /\ response.status \in Redirects

\* C4: every call of fetch returns after at most 5 network requests: no more
\* than 5 connections are opened and 5 request lines sent, the depth never
\* exceeds 5, a call that ends at depth 5 ends in TooManyRedirects, and the
\* call is never inside a loop that cannot end.
C4_TerminatesWithinFiveRequests ==
    /\ nreq <= MaxDepth
    /\ opened <= MaxDepth
    /\ depth <= MaxDepth
    /\ (fpc = "done" /\ depth = MaxDepth) => outcome = Err("TooManyRedirects")
    /\ fpc # "hung"

\* The example of C5: gemini://a answered 31 gemini://b, and the request for
\* gemini://b answered 20 text/gemini with the body ok.
ExampleRedirectChain ==
    /\ engine = "app"
    /\ fpc = "done"
    /\ depth = 1
    /\ IsSome(via)
    /\ Unwrap(via).url = Url_parse(UrlTextA).url
    /\ Unwrap(via).response.status = "RedirectPermanent"
    /\ Unwrap(via).response.meta = UrlTextB
    /\ lastReq = UrlTextB \o <<CR, LF>>
    /\ response = [status |-> "Success", meta |-> MetaTextGemini, body |-> BodyOk]

IsRelative(text) ==
    ~Url_parse(text).ok /\ Url_parse(text).err = "RelativeUrlWithoutBase"

\* C6: in the application's engine, a redirect whose meta is a relative URL
\* makes fetch re-enter, at depth + 1, with the meta resolved against the URL
\* of the request that was answered.
C6_RelativeRedirectResolved ==
    [][(engine = "app" /\ RedirectAnswer /\ IsRelative(response.meta)) =>
          /\ fpc' = "enter"
          /\ depth' = depth + 1
          /\ url' = Url_join(url, response.meta).url]_vars

\* A URL read() refuses: its scheme is not gemini, or it has no host.
Unfetchable(u) == u.scheme # sGemini \/ ~IsSome(u.host)

\* C7: at every depth at which fetch gets to read (depth < 5), a URL whose
\* scheme is not gemini fails with InvalidURLScheme and a gemini URL with no
\* host fails with NoHostname; no step taken with such a URL opens a
\* connection or sends a request, and the call is never connecting for one.
C7_NoConnectionForUnfetchableUrl ==
    /\ [](fpc = "connect" => ~Unfetchable(url))
    /\ [][Unfetchable(url) =>
            opened' = opened /\ nreq' = nreq /\ lastReq' = lastReq]_vars
    /\ [][(fpc = "enter" /\ depth < MaxDepth /\ Unfetchable(url)) =>
            /\ fpc' = "done"
            /\ outcome' = Err(IF url.scheme # sGemini
                                THEN "InvalidURLScheme" ELSE "NoHostname")]_vars

\* Two redirects were followed and the second names an http URL: the call has
\* ended in InvalidURLScheme with the two requests of the redirects only.
C7_Witness ==
    /\ fpc = "done"
    /\ depth = 2
    /\ url = Url_parse(UrlTextHttp).url
    /\ outcome = Err("InvalidURLScheme")
    /\ nreq = 2
    /\ opened = 2

\* Percent-encoding as the claim C8 has it: letters, digits and - . _ stay,
\* every other character, the space too, becomes %XX.
RECURSIVE PercentEncoded(_)
PercentEncoded(text) ==
    IF text = <<>> THEN <<>>
    ELSE (IF Head(text) \in Letters \cup Digits \cup {"-", ".", "_"}
            THEN <<Head(text)>> ELSE PercentEncodeByte(Head(text)))
         \o PercentEncoded(Tail(text))

\* C8: in the application's engine, the string the prompt returned is
\* percent-encoded and set as the query of the current URL, in place of any
\* query it had, and fetch re-enters with that URL at depth + 1.
C8_InputBecomesPercentEncodedQuery ==
    [][(engine = "app" /\ fpc = "prompted" /\ IsSome(entered)) =>
          /\ fpc' = "enter"
          /\ depth' = depth + 1
          /\ url' = [url EXCEPT !.query = Some(PercentEncoded(Unwrap(entered)))]]_vars

\* The event cancels the prompt: Esc, or Ctrl-C.
Cancels(e) ==
    e.key /\ (e.code = "Esc" \/ (e.code = "c" /\ e.modifiers = "CONTROL"))

\* C9: at a prompt, Esc or Ctrl-C makes the widget return no input, and the
\* fetch then ends in InputCancelled without opening a connection or sending a
\* request; Enter makes the widget return the buffer as it stands, and a
\* character typed is appended to the buffer.  A call only ends in
\* InputCancelled after a cancelling key.
C9_CancelAbortsEnterReturnsTyped ==
    /\ [][fpc = "input" =>
            /\ Cancels(evt') => (entered' = None /\ fpc' = "prompted")
            /\ (evt'.key /\ evt'.code = "Enter") =>
                  (entered' = Some(buf) /\ fpc' = "prompted")
            /\ (evt'.key /\ evt'.code \in TypedChars /\ ~Cancels(evt')) =>
                  (buf' = Append(buf, evt'.code) /\ fpc' = "input")]_vars
    /\ [][(fpc = "prompted" /\ entered = None) =>
            /\ fpc' = "done"
            /\ outcome' = Err("InputCancelled")
            /\ nreq' = nreq
            /\ opened' = opened]_vars
    /\ [](outcome = Err("InputCancelled") =>
            fpc = "done" /\ entered = None /\ Cancels(evt))

\* A first prompt was answered with "c " and Enter, the follow-up request was
\* answered with a second prompt, and there the user typed a character and
\* cancelled with Esc: the call has ended in InputCancelled after two requests.
C9_Witness ==
    /\ fpc = "done"
    /\ outcome = Err("InputCancelled")
    /\ depth = 1
    /\ Unwrap(via).input = Some(<<"c", SP>>)
    /\ buf # <<>>
    /\ evt = KeyEvent("Esc", "NONE")
    /\ nreq = 2

\* The statuses fetch neither reads a body for, nor follows, nor prompts for.
OtherStatus(status) == status \notin {"Success"} \cup Redirects \cup Inputs

\* C10: a response with any other status ends the call, with no further
\* request, in an outcome that is not an error and not a command, Exit
\* included, but the response without a document: its status and its meta.
C10_OtherStatusSurfaced ==
    [][(fpc = "dispatch" /\ OtherStatus(response.status)) =>
          /\ fpc' = "done"
          /\ nreq' = nreq
          /\ outcome'.kind = "OwnedDocument"
          /\ outcome'.doc = None
          /\ outcome'.status = response.status
          /\ outcome'.meta = response.meta]_vars

\* The document an outcome carries: the one display_doc showed, or the one of
\* the OwnedDocument; None for an outcome with no document.
DocumentOf(o) ==
    IF o.kind = "Command" THEN o.shown
    ELSE IF o.kind = "OwnedDocument" THEN o.doc
    ELSE None

\* C11: a Success response ends the call in an outcome that meta and body
\* determine: Utf8Error for a text/ body that is not UTF-8, else the parsed
\* body as the document for a meta starting with text/gemini, the one line
\* Pre{alt: none, text: body} for any other meta starting with text/, and
\* UnknownMeta, with no document, for every other meta.
C11_SuccessOutcomeFromMetaAndBody ==
    [][(fpc = "dispatch" /\ response.status = "Success") =>
          /\ fpc' = "done"
          /\ IF ~StartsWith(response.meta, sText \o <<"/">>)
               THEN outcome' = Err("UnknownMeta")
             ELSE IF ~Utf8Ok(response.body)
               THEN outcome' = Err("Utf8Error")
             ELSE IF StartsWith(response.meta, MetaTextGemini)
               THEN DocumentOf(outcome') =
                      Some(parse_text_gemini(response.body).doc)
             ELSE DocumentOf(outcome') = Some(<<Pre(None, response.body)>>)]_vars

(***************************************************************************)
(* Claims about the loop of the application.                               *)
(***************************************************************************)

\* C12: when fetch fails, the loop does not exit: it goes on to fetch the
\* same target again without having returned; and once run has returned, the
\* command it matched last is Exit.
C12_FetchErrorKeepsLoopRunning ==
    /\ [][(rpc = "match" /\ fetched.kind = "Err") =>
            /\ rpc' = "fetch"
            /\ run_target' = run_target
            /\ run_ret' = NoReturn]_vars
    /\ [](rpc = "returned" => fetched = Exit)

\* C13: Exit ends the loop with Ok; Load(url) makes url the target; TryLoad(s)
\* makes the target s parsed as a URL, or, s being relative, s resolved against
\* the target; when s is neither, the target stays and is fetched again.  So
\* the link /x on gemini://q?o leads to gemini://q/x, the link y on gemini://a
\* to gemini://a/y, and the link http:// nowhere.
C13_CommandsSetTarget ==
    [][(rpc = "match" /\ fetched.kind = "Command") =>
          /\ fetched.cmd = "Exit" => (rpc' = "returned" /\ run_ret' = RunOk)
          /\ fetched.cmd = "Load" =>
                (rpc' = "fetch" /\ run_target' = fetched.url)
          /\ fetched.cmd = "TryLoad" =>
                /\ rpc' = "fetch"
                /\ run_ret' = NoReturn
                /\ run_target' =
                     IF Url_parse(fetched.s).ok THEN Url_parse(fetched.s).url
                     ELSE IF IsRelative(fetched.s)
                       THEN Url_resolve(run_target, fetched.s).url
                     ELSE run_target
          /\ (fetched = TryLoad(UrlTextRelative)
                /\ run_target = Url_parse(UrlTextQ).url) =>
                run_target' = Url_parse(sGemini \o <<":", "/", "/", "q", "/", "x">>).url
          /\ (fetched = TryLoad(UrlTextSibling)
                /\ run_target = Url_parse(UrlTextA).url) =>
                run_target' = Url_parse(UrlTextA \o <<"/", "y">>).url
          /\ fetched = TryLoad(UrlTextEmptyHost) => run_target' = run_target]_vars

\* The link /x was followed on gemini://b, the page loaded by a command: the
\* target is gemini://b/x and is about to be fetched.
C13_Witness ==
    /\ rpc = "fetch"
    /\ fetched = TryLoad(UrlTextRelative)
    /\ run_target = Url_parse(UrlTextB \o <<"/", "x">>).url

(***************************************************************************)
(* Claims about the parsers.                                               *)
(***************************************************************************)

\* C14: parse_text_gemini returns on every input, with a document, no error
\* and nothing of the input left: each iteration of its loop consumes
\* something, also where a carriage return stands without a line feed.
C14_ParseTextGeminiTotal ==
    parser_fn = "parse_text_gemini" =>
        /\ parser_out.returns
        /\ parser_out.ok
        /\ parser_out.rest = <<>>

\* The eighteen codes of the protocol.
KnownCodes == {10, 11, 20, 30, 31, 40, 41, 42, 43, 44, 50, 51, 52, 53, 59, 60, 61, 62}

\* C15: a response of two digits NN, a space, a meta, CR LF and a body parses
\* to the status of NN and that meta when NN is one of the eighteen codes,
\* two codes never giving the same status; for any other NN parsing fails.
C15_EighteenCodesParse ==
    parser_fn = "parse_response" =>
        /\ Cardinality(KnownCodes) = 18
        /\ \A a \in KnownCodes, b \in KnownCodes :
              a # b => StatusOf(a) # StatusOf(b)
        /\ \A c \in HeaderCodes, m \in HeaderMetas, b \in HeaderBodies :
              parser_in = Header(c, m, b) =>
                  IF from_str_radix(c) \in KnownCodes
                    THEN /\ parser_out.ok
                         /\ parser_out.response.status = StatusOf(from_str_radix(c))
                         /\ parser_out.response.status # "InvalidStatusCode"
                         /\ parser_out.response.meta = m
                    ELSE ~parser_out.ok

\* "59 text/gemini\r\nb" was parsed: BadRequest, with the meta text/gemini.
C15_Witness ==
    /\ parser_fn = "parse_response"
    /\ parser_in = Header(<<"5", "9">>, MetaTextGemini, <<"b">>)
    /\ parser_out.ok
    /\ parser_out.response.status = "BadRequest"
    /\ parser_out.response.meta = MetaTextGemini

\* C16: a response whose header is well formed but whose two digits are no
\* known code fails with InvalidStatusCode, and one that deviates from the
\* form of a header fails with ParseError: the two can be told apart.
C16_InvalidStatusCodeReported ==
    parser_fn = "parse_response" =>
        /\ \A c \in HeaderCodes, m \in HeaderMetas, b \in HeaderBodies :
              (parser_in = Header(c, m, b) /\ from_str_radix(c) \notin KnownCodes) =>
                  (~parser_out.ok /\ parser_out.err = "InvalidStatusCode")
        /\ parser_in \in Deviations =>
              (~parser_out.ok /\ parser_out.err = "ParseError")

\* C17: when parse_response succeeds, its input is two digits, a space, the
\* meta returned, CR LF and then the body returned: the body is all that
\* follows the first CR LF, further CR LF included.
C17_BodyIsUntouchedTail ==
    (parser_fn = "parse_response" /\ parser_out.ok) =>
        /\ Len(parser_in) >= 5
        /\ parser_in[1] \in Digits /\ parser_in[2] \in Digits
        /\ \A i \in 1..Len(parser_out.response.meta) :
              parser_out.response.meta[i] # CR
        /\ parser_in = Header(Take(parser_in, 2), parser_out.response.meta,
                              parser_out.response.body)

\* "20 m\r\n\r\nb\r\n" was parsed: the body is "\r\nb\r\n".
C17_Witness ==
    /\ parser_fn = "parse_response"
    /\ parser_in = Header(<<"2", "0">>, <<"m">>, <<CR, LF, "b", CR, LF>>)
    /\ parser_out.ok
    /\ parser_out.response.body = <<CR, LF, "b", CR, LF>>

\* The lengths of the long metas of the model, accepted and not.
LongLengths == {MaxMeta - 1, MaxMeta, MaxMeta + 1, MaxMeta + 2}

\* C37: a header of a known code, a space, a meta of 0 to 1024 bytes that
\* holds no CR, and CR LF is accepted with that meta; with a meta of more
\* than 1024 bytes before the CR LF it is rejected with ParseError, and so is
\* a header without the space after the digits or without the CR LF.
C37_MetaAtMost1024 ==
    parser_fn = "parse_response" =>
        /\ \A c \in HeaderCodes, m \in HeaderMetas, b \in HeaderBodies :
              /\ (parser_in = Header(c, m, b) /\ from_str_radix(c) \in KnownCodes) =>
                    (parser_out.ok /\ parser_out.response.meta = m)
              /\ (parser_in = NoSpace(c, m, b) /\ (m = <<>> \/ m[1] # SP)) =>
                    (~parser_out.ok /\ parser_out.err = "ParseError")
              /\ \A e \in {<<>>, <<LF>>} :
                    parser_in = Unended(c, m, e) =>
                        (~parser_out.ok /\ parser_out.err = "ParseError")
        /\ \A n \in LongLengths :
              parser_in = Header(<<"2", "0">>, LongMeta(n), <<"b">>) =>
                  IF n <= 1024
                    THEN parser_out.ok /\ parser_out.response.meta = LongMeta(n)
                    ELSE ~parser_out.ok /\ parser_out.err = "ParseError"

\* A response whose meta is 1024 bytes long was parsed, and the meta returned.
C37_Witness ==
    /\ parser_fn = "parse_response"
    /\ parser_in = Header(<<"2", "0">>, LongMeta(1024), <<"b">>)
    /\ parser_out.ok
    /\ Len(parser_out.response.meta) = 1024

\* C18: a line of =>, blanks or none, a URL (the characters up to the next
\* whitespace), blanks, and the rest of the line parses to NamedLink{url,
\* name} when that rest is not empty and to BareLink(url) when it is, as for
\* a URL followed by spaces only; the end of the line is consumed.
C18_LinkLineNamedOrBare ==
    parser_fn = "parse_line" =>
        \A w1 \in Blanks, u \in LinkUrls, w2 \in Blanks, n \in LinkNames,
           e \in LineEnds :
            (parser_in = LinkText(w1, u, w2, n, e) /\ (n # <<>> => w2 # <<>>)) =>
                parser_out = Ok(<<>>, IF n = <<>> THEN BareLink(u)
                                      ELSE NamedLink(u, n))

\* "=> u  " was parsed, a URL with two spaces after it: BareLink("u").
C18_Witness ==
    /\ parser_fn = "parse_line"
    /\ parser_in = LinkText(<<SP>>, <<"u">>, <<SP, SP>>, <<>>, <<>>)
    /\ parser_out = Ok(<<>>, BareLink(<<"u">>))

\* The first line of a text: what stands before its terminator, a CR LF, a
\* LF or the end of the text.
LineBeforeLF(text, n) ==
    IF n < Len(text) /\ n > 0 /\ text[n] = CR THEN Take(text, n - 1)
    ELSE Take(text, n)
FirstLine(text) == LineBeforeLF(text, Span(text, {LF}, FALSE))

\* A line without its leading spaces.
Unspaced(l) == Drop(l, Span(l, {SP}, TRUE))

\* The line that a first line l is by the order of the prefixes, links and
\* fences apart.
Classified(l) ==
    IF StartsWith(l, <<"#", "#", "#">>) THEN H3(Unspaced(Drop(l, 3)))
    ELSE IF StartsWith(l, <<"#", "#">>) THEN H2(Unspaced(Drop(l, 2)))
    ELSE IF StartsWith(l, <<"#">>) THEN H1(Unspaced(Drop(l, 1)))
    ELSE IF StartsWith(l, <<"*", SP>>) THEN List(Unspaced(Drop(l, 2)))
    ELSE IF StartsWith(l, <<">">>) THEN Quote(Unspaced(Drop(l, 1)))
    ELSE Text(l)

IsLinkOrFence(l) == StartsWith(l, <<"=", ">">>) \/ StartsWith(l, Fence)

\* C36: parse_line classifies a line that is no link and no fence by the
\* first prefix that matches in the order ###, ##, #, "* ", ">", otherwise
\* as Text; after the prefix only spaces are skipped, and the payload is the
\* rest of the line without its terminator (CR LF, LF or the end of input).
C36_PrefixOrderAndPayload ==
    (parser_fn = "parse_line" /\ ~IsLinkOrFence(FirstLine(parser_in))) =>
        /\ parser_out.ok
        /\ parser_out.out = Classified(FirstLine(parser_in))

\* The lines inside a block, and what may follow its closing fence: nothing,
\* a line feed, or a line feed and one more line, ended or not.
PlainLines == GemLines \ {Fence, Fence \o <<"a">>}
FencedInteriors == UNION {[1..n -> PlainLines] : n \in 1..2}
AfterFence ==
    {<<>>, <<LF>>}
    \cup {<<LF>> \o l \o e : l \in PlainLines \ {<<>>}, e \in {<<>>, <<LF>>}}
Fenced(alt, interior, after) ==
    Fence \o alt \o <<LF>> \o Joined(interior, <<LF>>) \o <<LF>> \o Fence \o after

\* What the claim expects of a closed block: one Pre with the alt and the
\* interior, then the lines that follow as they parse on their own (nothing
\* is expected where those make the parser loop for ever).
PreThenRest(alt, interior, following) ==
    following.hang
    \/ parser_out = [returns |-> TRUE, ok |-> TRUE, rest |-> <<>>,
                     doc |-> <<Pre(Some(alt), Joined(interior, <<LF>>))>>
                             \o following.doc]

\* C19: a block opened by a fence line with an alt and closed by a fence line
\* parses to one Pre{alt, text}, text being the interior lines joined by line
\* feeds, unread as headings or links; the lines after the closing fence
\* parse as they do on their own, and the closing fence may be the last line
\* of the input.
C19_ClosedFenceGivesOnePre ==
    (parser_fn = "parse_text_gemini" /\ StartsWith(parser_in, Fence \o <<"a">>)) =>
        \A interior \in FencedInteriors, after \in AfterFence :
            parser_in = Fenced(<<"a">>, interior, after) =>
                PreThenRest(<<"a">>, interior, parse_text_gemini(Drop(after, 1)))

\* An opening fence line, with an alt or without, and lines after it none of
\* which is a fence.
Unclosed(alt, interior, e) ==
    Fence \o alt \o <<LF>> \o Joined(interior, <<LF>>) \o e

\* C20: when the input ends before a fence opened is closed, the document is
\* one Pre whose text is all that follows the opening fence line (with or
\* without the line feed that ends the input); the lines after the opening
\* fence are not parsed as lines of their own.  Nothing is said here of the
\* inputs the parser does not return on.
C20_UnclosedFenceGivesPre ==
    (parser_fn = "parse_text_gemini" /\ StartsWith(parser_in, Fence)
        /\ parser_out.returns) =>
        \A alt \in {<<>>, <<"a">>}, interior \in FencedInteriors,
           e \in {<<>>, <<LF>>} :
            parser_in = Unclosed(alt, interior, e) =>
                /\ parser_out.ok
                /\ Len(parser_out.doc) = 1
                /\ parser_out.doc[1].tag = "Pre"
                /\ parser_out.doc[1].alt = (IF alt = <<>> THEN None ELSE Some(alt))
                /\ parser_out.doc[1].text \in
                      {Joined(interior, <<LF>>), Joined(interior, <<LF>>) \o e}

\* C29, for the words itr of the input and the result out of Command::parse.
CommandAsClaimed(itr, out) ==
    /\ out.kind \in {"Command", "Err"}
    /\ (itr # <<>> /\ itr[1] = <<"q">>) => out = Exit
    /\ (itr # <<>> /\ itr[1] = <<"g">> /\ Len(itr) >= 2) =>
          IF Url_parse(itr[2]).ok
            THEN out = Load(Url_parse(itr[2]).url)
          ELSE IF Url_parse(itr[2]).err = "RelativeUrlWithoutBase"
                    /\ Url_parse(sGemini \o <<":", "/", "/">> \o itr[2]).ok
            THEN out = Load(Url_parse(sGemini \o <<":", "/", "/">> \o itr[2]).url)
          ELSE out.kind = "Err"
    /\ (itr # <<>> /\ itr[1] = <<"g">> /\ Len(itr) = 1) => out.kind = "Err"
    /\ (itr # <<>> /\ itr[1] \notin {<<"q">>, <<"g">>}) => out.kind = "Err"
    /\ itr = <<>> => out.kind = "Err"

\* C29: Command::parse returns for every input: Exit when the first word is
\* q; Load(url) when it is g and a target follows, url being the target
\* parsed as an absolute URL or, when the target has no base, "gemini://" and
\* the target parsed again; an error and no command for g without a target,
\* for a target that does not parse, for any other first word and for an
\* input without words.
C29_CommandParseTotal ==
    parser_fn = "Command::parse" =>
        CommandAsClaimed(split_whitespace(parser_in), parser_out)

\* "g a" was parsed into the command that loads gemini://a.
C29_Witness ==
    /\ parser_fn = "Command::parse"
    /\ parser_in = <<"g", SP, "a">>
    /\ parser_out = Load(Url(sGemini, Some(<<"a">>), <<>>, None))

(***************************************************************************)
(* Claims about word wrapping.                                             *)
(***************************************************************************)

\* The number of screen lines of the first b blocks of d.
RECURSIVE LinesBefore(_, _, _)
LinesBefore(d, width, b) ==
    IF b = 0
      THEN 0
      ELSE LinesBefore(d, width, b - 1) + Len(line_wrap(d[b], width))

\* The screen lines of block b in the wrapped document out, from where they
\* start: they are those of the block, as many, and only the first of them
\* is flagged first.
BlockLines(out, block, from) ==
    /\ block # <<>>
    /\ \A j \in 1..Len(block) :
          /\ out[from + j].line = block[j].line
          /\ out[from + j].first = (j = 1)

\* C21: word_wrap emits, for each block of the document, one screen line
\* with first = true, the earliest of the block's screen lines; its later
\* screen lines have first = false.
C21_OneFirstPerBlock ==
    wrap_fn = "word_wrap" =>
        /\ Len(wrap_out) = LinesBefore(wrap_source, wrap_width, Len(wrap_source))
        /\ Cardinality({i \in 1..Len(wrap_out) : wrap_out[i].first})
              = Len(wrap_source)
        /\ \A b \in 1..Len(wrap_source) :
              BlockLines(wrap_out, line_wrap(wrap_source[b], wrap_width),
                         LinesBefore(wrap_source, wrap_width, b - 1))

\* Two blocks were wrapped, the first into more than one screen line.
C21_Witness ==
    /\ wrap_fn = "word_wrap"
    /\ Len(wrap_source) = 2
    /\ Len(line_wrap(wrap_source[1], wrap_width)) > 1
    /\ wrap_out[1].first
    /\ ~wrap_out[2].first

\* The payload of a screen line; the width the claim gives its variant.
PayloadOf(line) ==
    IF line.tag = "NamedLink" THEN line.name
    ELSE IF line.tag = "Pre" THEN line.text
    ELSE IF line.tag = "BareLink" THEN line.url
    ELSE line.s
EffectiveWidth(tag, width) ==
    CASE tag = "Text" -> width
      [] tag \in {"NamedLink", "H2"} -> width - 3
      [] tag \in {"H1", "List", "Quote"} -> width - 2
      [] tag = "H3" -> width - 4
Wrappable == {"Text", "NamedLink", "H1", "H2", "H3", "List", "Quote"}

\* C22: a block whose payload is empty is wrapped into exactly one screen
\* line, with an empty payload and first = true; every block of the document
\* has at least one screen line, and every block of the viewport's wrapped
\* document has a length of 1 or more.
C22_EmptyPayloadOneLine ==
    /\ wrap_fn = "word_wrap" =>
          \A b \in 1..Len(wrap_source) :
              /\ Len(line_wrap(wrap_source[b], wrap_width)) >= 1
              /\ (wrap_source[b].tag \in Wrappable
                    /\ PayloadOf(wrap_source[b]) = <<>>) =>
                    line_wrap(wrap_source[b], wrap_width)
                        = <<Screen(wrap_source[b], TRUE)>>
    /\ wrap_fn = "Document::word_wrap" =>
          \A b \in 1..Len(wrap_out) : Line__len(wrap_out[b]) >= 1

\* C23: at any width of 4 or more, the payload of every screen line of a
\* wrapped variant is no longer than the effective width of the variant.
C23_PayloadFitsEffectiveWidth ==
    wrap_fn = "word_wrap" =>
        \A i \in 1..Len(wrap_out) :
            wrap_out[i].line.tag \in Wrappable =>
                Len(PayloadOf(wrap_out[i].line))
                    <= EffectiveWidth(wrap_out[i].line.tag, wrap_width)

\* C24, as claimed: List("alpha beta gamma") at width 8 wraps to the two
\* List screen lines "alpha" and "beta gamma", flagged true and false.
C24_AlphaBetaGammaTwoLines ==
    (wrap_fn = "word_wrap" /\ wrap_width = 8
        /\ wrap_source = <<List(PayloadAlpha)>>) =>
        wrap_out = <<Screen(List(<<"a", "l", "p", "h", "a">>), TRUE),
                     Screen(List(<<"b", "e", "t", "a", SP, "g", "a", "m", "m", "a">>),
                            FALSE)>>

\* C24, amended: List("alpha beta gamma") at width 8 wraps to the three List
\* screen lines "alpha", "beta" and "gamma", flagged true, false and false
\* ("beta gamma" is wider than the 6 columns a List line has at width 8).
C24_AlphaBetaGammaThreeLines ==
    (wrap_fn = "word_wrap" /\ wrap_width = 8
        /\ wrap_source = <<List(PayloadAlpha)>>) =>
        wrap_out = <<Screen(List(<<"a", "l", "p", "h", "a">>), TRUE),
                     Screen(List(<<"b", "e", "t", "a">>), FALSE),
                     Screen(List(<<"g", "a", "m", "m", "a">>), FALSE)>>

\* List("alpha beta gamma") was wrapped at width 8, into three screen lines.
C24_Witness ==
    /\ wrap_fn = "word_wrap"
    /\ wrap_width = 8
    /\ wrap_source = <<List(PayloadAlpha)>>
    /\ Len(wrap_out) = 3

\* The raw lines of a preformatted text: one more than its line feeds.
RawLines(text) == Cardinality({i \in 1..Len(text) : text[i] = LF}) + 1

\* The screen lines of the block that starts after the first `from` lines of
\* out and has n of them.
ScreenLinesOf(out, from, n) == [j \in 1..n |-> out[from + j].line]

\* The screen lines ls are Pre lines of the alt given whose texts, none with
\* a line feed in it, are the raw lines of text in their order.
PreLinesOf(ls, alt, text) ==
    /\ Len(ls) = RawLines(text)
    /\ \A j \in 1..Len(ls) :
          /\ ls[j].tag = "Pre"
          /\ ls[j].alt = alt
          /\ \A i \in 1..Len(ls[j].text) : ls[j].text[i] # LF
    /\ Joined([j \in 1..Len(ls) |-> ls[j].text], <<LF>>) = text

\* C38: word_wrap emits one BareLink screen line for a BareLink block, and
\* for a Pre block one Pre screen line for each raw line of its text, in
\* order and unmodified, each with the alt of the block; an empty text gives
\* one empty Pre line.
C38_BareLinkAndPreLines ==
    wrap_fn = "word_wrap" =>
        \A b \in 1..Len(wrap_source) :
            /\ wrap_source[b].tag = "BareLink" =>
                  ScreenLinesOf(wrap_out,
                                LinesBefore(wrap_source, wrap_width, b - 1),
                                Len(line_wrap(wrap_source[b], wrap_width)))
                      = <<wrap_source[b]>>
            /\ wrap_source[b].tag = "Pre" =>
                  PreLinesOf(ScreenLinesOf(wrap_out,
                                 LinesBefore(wrap_source, wrap_width, b - 1),
                                 Len(line_wrap(wrap_source[b], wrap_width))),
                             wrap_source[b].alt, wrap_source[b].text)

\* A BareLink and a Pre of three raw lines, the second empty, were wrapped
\* into four screen lines.
C38_Witness ==
    /\ wrap_fn = "word_wrap"
    /\ wrap_source = <<BareLink(<<"u">>), Pre(Some(<<"a">>), <<"a", LF, LF, "b">>)>>
    /\ Len(wrap_out) = 4
    /\ wrap_out[3].line = Pre(Some(<<"a">>), <<>>)

(***************************************************************************)
(* More claims about the TOFU store.                                       *)
(***************************************************************************)

\* C32: verify_server_cert called with no presented certificate fails with
\* NoCertificatesPresented before any lookup in the store: the step of the
\* call returns that error, takes no lock and leaves every host's record as
\* it was, and the call never holds a lookup result.
C32_EmptyChainRefused ==
    /\ [](\A t \in Threads :
            (tpc[t] # "idle" /\ presented_certs[t] = <<>>) =>
                /\ tpc[t] = "done"
                /\ ret[t] = "NoCertificatesPresented"
                /\ r[t] = Nil
                /\ t \notin readers
                /\ writer # t)
    /\ [][\A t \in Threads :
            (tpc[t] = "idle" /\ tpc'[t] # "idle" /\ presented_certs'[t] = <<>>) =>
                db' = db /\ readers' = readers /\ writer' = writer]_vars

\* A call with no certificate was refused for a host that has a record, which
\* is still in the store.
C32_Witness ==
    \E t \in Threads :
        /\ tpc[t] = "done"
        /\ presented_certs[t] = <<>>
        /\ ret[t] = "NoCertificatesPresented"
        /\ db[dns_name[t]] # NoRecord

\* C40: the write lock is requested only by a call whose lookup found no
\* record, and never by a thread that still holds the read guard; no call
\* deadlocks: every call that was made returns.
C40_WriteLockOnFirstSightOnly ==
    /\ [](\A t \in Threads :
            tpc[t] \in {"wrlock", "insert"} =>
                r[t] = NoRecord /\ t \notin readers)
    /\ \A t \in Threads : (tpc[t] # "idle") ~> (tpc[t] = "done")

\* A thread waits for the write lock while another holds it for its insert.
C40_Witness ==
    \E t, u \in Threads :
        /\ tpc[t] = "wrlock"
        /\ tpc[u] = "insert"
        /\ writer = u

(***************************************************************************)
(* Claims about the viewport.                                              *)
(***************************************************************************)

\* The invariants of the viewport: both positions name a row of a block of
\* the document, the scroll position is not after the cursor, and the cursor
\* is less than a screenful after it.
InDocument(v, index) ==
    /\ index[1] < Len(v.doc)
    /\ index[2] < Line__len(block_at(v, index[1]))
ViewInvariants(v) ==
    /\ InDocument(v, v.yscroll)
    /\ InDocument(v, v.ycursor)
    /\ 0 <= scroll_line(v)
    /\ scroll_line(v) <= cursor_line(v)
    /\ cursor_line(v) < rows_before(v.doc, Len(v.doc))
    /\ cursor_line(v) - scroll_line(v) < v.size[2]

\* C25: after any sequence of down and up events on a document that is not
\* empty, 0 <= yscroll <= ycursor < len(wrapped_doc) and ycursor - yscroll <
\* height, and both positions name an existing screen line.
C25_ViewInvariantsAfterDownUp ==
    (view_evt.type \in {"Key", "Mouse"} /\ event_ret # "panic" /\ view.doc # <<>>) =>
        ViewInvariants(view)

\* The screen lines of the wrapped document of a view.
TotalLines(v) == rows_before(v.doc, Len(v.doc))

\* Line q of m is line p of n, as a fraction of the document, to within one
\* of the m lines: |q/m - p/n| * m <= 1.
SameFraction(p, n, q, m) ==
    /\ q * n - p * m <= n
    /\ p * m - q * n <= n

\* C26: after a Resize event the scroll position and the cursor position, as
\* screen-line offsets over the length of the re-wrapped document, are the
\* fractions they were before the event to within one screen line.
C26_ResizeKeepsFraction ==
    [][(view_pc = "loop" /\ view_evt'.type = "Resize" /\ event_ret' = "Ok(true)") =>
          /\ SameFraction(scroll_line(view), TotalLines(view),
                          scroll_line(view'), TotalLines(view'))
          /\ SameFraction(cursor_line(view), TotalLines(view),
                          cursor_line(view'), TotalLines(view'))]_vars

\* The command the view emits with what View::event returned: Ok(false)
\* ends the view, its Exit; Ok(true) goes on with the loop, no command.
Emitted(returned) == IF returned = "Ok(false)" THEN Some(Exit) ELSE None

\* A turn of the loop handles a key or mouse event without a panic.
HandlesInput ==
    /\ view_pc = "loop"
    /\ view_evt'.type \in {"Key", "Mouse"}
    /\ event_ret' # "panic"

\* The step leaves the positions and the size of the view as they were.
ViewUnmoved ==
    /\ view'.yscroll = view.yscroll
    /\ view'.ycursor = view.ycursor
    /\ view'.size = view.size

\* C27: Enter with the cursor on a link (a Link with or without a name) makes
\* the view emit TryLoad(url) with the url of that line; Enter on any other
\* line emits no command and leaves scroll and cursor as they were.
C27_EnterOnLinkEmitsTryLoad ==
    [][(HandlesInput /\ view_evt'.type = "Key" /\ view_evt'.code = "Enter") =>
          IF block_at(view, view.ycursor[1]).tag = "Link"
            THEN Emitted(event_ret')
                    = Some(TryLoad(block_at(view, view.ycursor[1]).url))
            ELSE Emitted(event_ret') = None /\ ViewUnmoved]_vars

\* The key is Ctrl-C; the event is no key or button the view knows.
IsCtrlC(e) == e.type = "Key" /\ e.code = "c" /\ e.modifiers = "CONTROL"
IsOther(e) ==
    /\ ~CallsDown(e)
    /\ ~CallsUp(e)
    /\ ~IsCtrlC(e)
    /\ ~(e.type = "Key" /\ e.code = "q")

\* The step moves the positions as v has them.
MovedAs(v) ==
    /\ event_ret' = "Ok(true)"
    /\ view'.yscroll = v.yscroll
    /\ view'.ycursor = v.ycursor
    /\ view'.size = v.size

Max(a, b) == IF a >= b THEN a ELSE b

\* The step moves the cursor to screen line c, and the scroll position by one
\* screen line in the direction d when c is outside the window the view shows
\* before the step, and not at all when it is inside.
SingleStep(c, d) ==
    /\ cursor_line(view') = c
    /\ scroll_line(view') =
          IF c < scroll_line(view) \/ c >= scroll_line(view) + view.size[2]
            THEN scroll_line(view) + d
            ELSE scroll_line(view)

\* The step leaves cursor and scroll as they were and draws nothing: the loop
\* goes on, whether the terminal can be written to or not.
NoMoveNoRedraw ==
    /\ ViewUnmoved
    /\ view_pc' = "loop"

\* C33: down moves the cursor to min(ycursor+1, len-1) and up to
\* max(ycursor-1, 0), as screen lines; the scroll position moves by one screen
\* line, the same way, when the new cursor is outside the window [yscroll,
\* yscroll+height) and stays otherwise; down on the last screen line and up
\* on the first leave both unchanged and request no redraw.
C33_SingleStepMoves ==
    [][HandlesInput =>
          /\ CallsDown(view_evt') =>
                /\ SingleStep(Min(cursor_line(view) + 1, TotalLines(view) - 1), 1)
                /\ cursor_line(view) = TotalLines(view) - 1 => NoMoveNoRedraw
          /\ CallsUp(view_evt') =>
                /\ SingleStep(Max(cursor_line(view) - 1, 0), -1)
                /\ cursor_line(view) = 0 => NoMoveNoRedraw]_vars

\* C34: after a Resize event on a document that is not empty, to a size of
\* at least 4 columns and 2 rows, handled and redrawn, the invariants of the
\* viewport hold for the re-wrapped document, yscroll <= ycursor < len
\* and ycursor - yscroll < height, and the view is w - 4 columns wide and
\* h - 2 rows high.
C34_InvariantsAfterResize ==
    (view_pc = "loop" /\ view_evt.type = "Resize" /\ view.doc # <<>>
        /\ view_evt.w >= 4 /\ view_evt.h >= 2) =>
        /\ view.size = <<view_evt.w - 4, view_evt.h - 2>>
        /\ ViewInvariants(view)

\* C35: whenever the viewport has been drawn, exactly one row of the screen
\* has the black background over its whole width, and it is the row of the
\* screen line at ycursor, whatever the variants of the lines shown.
C35_OneHighlightedRow ==
    (view_pc = "loop" /\ view.doc # <<>>) =>
        /\ Cardinality({y \in 1..Len(draw(view)) : draw(view)[y].black}) = 1
        /\ \A y \in 1..Len(draw(view)) :
              draw(view)[y].black <=> draw(view)[y].index = view.ycursor

\* C39: no subtraction of the viewport goes below zero: for the size a
\* Resize event reports, w - 4 and h - 2 are not negative, and where down or
\* up computes len(block) - 1 the block has a row.
C39_NoUnderflow ==
    /\ [](view_evt.type = "Resize" =>
            /\ view_evt.w - 4 >= 0
            /\ view_evt.h - 2 >= 0)
    /\ [][(view_pc = "loop" /\ view.doc # <<>>) =>
            /\ CallsDown(view_evt') => ~down_overflows(view)
            /\ CallsUp(view_evt') => ~up_overflows(view)]_vars

\* The turn handles a key; the key is the colon and what was typed at the
\* prompt fails to parse.
HandlesKey == dpc = "loop" /\ doc_evt'.type = "Key"
FailsToParse ==
    /\ doc_evt'.code = ":"
    /\ IsSome(doc_input')
    /\ Command_parse(Unwrap(doc_input')).kind = "Err"

\* C31: the command-error flag goes up only in a turn whose key is the colon
\* and whose command fails to parse; a key read while the flag is up clears
\* the command line and lowers the flag, so that after any key that does not
\* itself give a new command error the flag is down and no error is shown.
C31_CmdErrorClearedOnKey ==
    [][/\ (dpc = "loop" /\ ~app.has_cmd_error /\ app'.has_cmd_error) =>
              (doc_evt'.type = "Key" /\ FailsToParse)
       /\ (HandlesKey /\ ~FailsToParse) =>
              (~app'.has_cmd_error /\ app'.pane # "error")]_vars

\* C30: when display has returned, by whatever path, the terminal is out of
\* raw mode, reports no mouse events and shows its cursor.
C30_TerminalRestored ==
    view_pc = "returned" =>
        /\ ~raw_mode
        /\ ~mouse_capture
        /\ ~cursor_hidden

=============================================================================
